---- MODULE Spec2Model ----
(***************************************************************************)
(* State-machine model of the blog-content generator service:              *)
(*   app/cache.py         MemoryCache (TTL cache)                          *)
(*   app/rate_limiter.py  RateLimiter, get_client_id, rate_limit_middleware*)
(*   app/generators.py    ContentGenerator (retry loop, response parsing)  *)
(*   app/main.py          middleware registration and routes               *)
(* Time is the wall clock time.time(), counted in whole seconds.           *)
(***************************************************************************)
EXTENDS Integers, Sequences, FiniteSets, TLC

\* ------------------------------------------------------------------ bounds
\* number of clock advances explored in one behaviour
MaxTicks == 2
\* largest explicit ttl argument passed to MemoryCache.set
MaxTTL == 1
\* number of rate-limited calls explored in one behaviour
MaxCalls == 5
\* RateLimiter(requests_per_minute=...): the minute ceiling explored
RequestsPerMinute == 2
\* RateLimiter(requests_per_hour=...): the hour ceiling explored
RequestsPerHour == 3
\* longest provider text explored (symbols of X, Y and Z together)
MaxText == 3
\* longest password suffix explored in the hash round trip
MaxSuffix == 2
\* number of tokens in circulation in one behaviour
MaxTokens == 2
\* number of login/register/change_password calls explored in one behaviour
MaxAuthCalls == 3
\* number of calls explored in one behaviour while tokens circulate
MaxTokenCalls == 4
\* number of HealthChecker calls explored in one behaviour
MaxHealthCalls == 3
\* largest MetricsCollector(max_history=...) capacity explored
MaxHistory == 2
\* number of record_request calls explored in one behaviour
MaxRecords == 4
\* number of notifying requests explored in one behaviour
MaxNotifyCalls == 3
\* number of calls of @cached functions explored in one behaviour
MaxMemoCalls == 3
\* number of cache.set and @cache_invalidate calls explored in one behaviour
MaxInvCalls == 3
\* number of is_allowed calls made by threads in one behaviour
MaxRaceCalls == 3
\* number of get and set calls made by threads in one behaviour
MaxWorkerCalls == 3

\* ------------------------------------------------------- program constants
\* MemoryCache(default_ttl=3600)
DefaultTTL == 3600
\* length of the minute window of the rate limiter
MinuteWindow == 60
\* length of the hour window of the rate limiter
HourWindow == 3600
\* for attempt in range(3)
MaxAttempts == 3
\* if attempt < 2: sleep and retry
RetryBelow == 2
\* time.sleep(2)
RetryPause == 2
\* bcrypt reads at most 72 bytes of a password
BcryptMaxBytes == 72
\* ACCESS_TOKEN_EXPIRE_MINUTES = 30, in seconds
TokenSeconds == 1800
\* timedelta(minutes=15), the lifetime without expires_delta, in seconds
DefaultTokenSeconds == 900
\* MetricsCollector(max_history=1000)
DefaultMaxHistory == 1000

None == "None"

VARIABLES
    now,          \* time.time()
    ticks,        \* how many times the clock has advanced
    calls,        \* how many is_allowed calls and HTTP requests were made
    cache,        \* MemoryCache._cache: key -> [value, expires_at]
    cacheRet,     \* the last MemoryCache call: operation, key, return value, time
    lastSet,      \* per key, the last set not followed by delete/clear
    minute_requests,  \* RateLimiter.minute_requests: client -> timestamps
    hour_requests,    \* RateLimiter.hour_requests: client -> timestamps
    rlCall,       \* the last is_allowed call: client, time, counts, result
    allowedLog,   \* per client, every timestamp is_allowed ever allowed
    response,     \* the last HTTP exchange: request and what the client got
    gpc,          \* where the generation call stands
    caller,       \* who called generate_with_deepseek
    topic,        \* the topic generate_post was called with
    attempt,      \* the loop variable of generate_with_deepseek
    post_calls,   \* requests.post calls made by the current invocation
    pauses,       \* the time.sleep durations of the current invocation
    outcomes,     \* how each attempt of the current invocation ended
    provided,     \* what the provider answered to the last attempt
    genResult,    \* what generate_with_deepseek returned or raised
    payload,      \* what generate_post returned
    apiResponse,  \* the last POST /generate exchange
    pwRet,        \* the last hash-and-verify round trip
    fake_users_db,    \* auth.fake_users_db: username -> record
    issued,       \* the tokens create_access_token has produced
    authRet,      \* the last auth call: operation, arguments, outcome
    lastChange,   \* the last successful change_password
    passwords,    \* per user, the plain password last set for it
    checks,       \* HealthChecker.checks: name -> interval
    last_check,   \* HealthChecker.last_check: name -> time of the last run
    healthRet,    \* the last check_health call: its number, time and results
    runs,         \* per probe, each invocation of its function: when, how it ended
    max_history,      \* MetricsCollector.max_history
    request_history,  \* MetricsCollector.request_history, a deque(maxlen)
    metrics,      \* MetricsCollector.metrics, the APIMetrics counters
    recorded,     \* every metric record_request was called with, in order
    tgConfig,     \* TelegramBot.config
    npc,          \* where the request that notifies stands
    background_tasks, \* the task list send_async was given
    posts,        \* every requests.post made to the chat-bot endpoint
    notifyRet,    \* the last request that notified: caller, response, tasks
    invocations,  \* every invocation of a function under @cached, in order
    memoRet,      \* the last call of a @cached wrapper: arguments and result
    dispatch,     \* how the framework calls the wrapper of an async route
    awaited,      \* the coroutine objects that have been awaited
    invRet,       \* the last call of a @cache_invalidate wrapper
    threads,      \* per thread inside is_allowed: its position and its locals
    finished,     \* how many is_allowed calls made by threads have returned
    workers,      \* per thread using the cache: its position, locals, last return
    touched       \* per key, the threads that have called get or set with it

cacheVars == <<cache, cacheRet, lastSet>>
clockVars == <<now, ticks>>
countVars == <<calls>>
rlVars == <<minute_requests, hour_requests, rlCall, allowedLog, response>>
genVars == <<gpc, caller, topic, attempt, post_calls, pauses, outcomes,
             provided, genResult, payload>>
apiVars == <<apiResponse>>
pwVars == <<pwRet>>
authVars == <<fake_users_db, issued, authRet, lastChange, passwords>>
healthVars == <<checks, last_check, healthRet, runs>>
metricsVars == <<max_history, request_history, metrics, recorded>>
notifyVars == <<tgConfig, npc, background_tasks, posts, notifyRet>>
memoVars == <<invocations, memoRet, dispatch, awaited>>
invVars == <<invRet>>
raceVars == <<threads, finished>>
workerVars == <<workers, touched>>
moreVars == <<metricsVars, notifyVars, memoVars, invVars, raceVars, workerVars>>
coreVars == <<cacheVars, rlVars, genVars, apiVars, pwVars, authVars, healthVars>>
extVars == <<apiVars, pwVars, authVars, healthVars, moreVars>>
vars == <<now, ticks, calls, cache, cacheRet, lastSet,
          minute_requests, hour_requests, rlCall, allowedLog, response,
          gpc, caller, topic, attempt, post_calls, pauses, outcomes,
          provided, genResult, payload,
          apiResponse, pwRet, fake_users_db, issued, authRet, lastChange, passwords,
          checks, last_check, healthRet, runs,
          max_history, request_history, metrics, recorded,
          tgConfig, npc, background_tasks, posts, notifyRet,
          invocations, memoRet, dispatch, awaited, invRet, threads, finished,
          workers, touched>>

\* ------------------------------------------------------------------ clock
\* The clock advances by d seconds.

Tick(d) ==
    /\ ticks < MaxTicks
    /\ now' = now + d
    /\ ticks' = ticks + 1

\* ------------------------------------------------------------ MemoryCache
Keys == {"k1", "k2"}
Values == {"v1", "v2"}

\* the ttl argument of set: omitted (None), or an explicit integer
TTLArgs ==
    {[given |-> FALSE, val |-> 0]} \cup {[given |-> TRUE, val |-> t] : t \in 0..MaxTTL}

NoSet == [value |-> None, given |-> FALSE, ttl |-> 0, at |-> 0]
NoCall == [op |-> None, key |-> None, value |-> None, at |-> 0]

\* the record of a call: the operation, its key, what it returned, and when
Return(op, key, value) == [op |-> op, key |-> key, value |-> value, at |-> now]

\* ttl = ttl or self.default_ttl
EffectiveTTL(ttlArg) ==
    IF ttlArg.given /\ ttlArg.val # 0 THEN ttlArg.val ELSE DefaultTTL

\* time.time() > cache_entry['expires_at']
Expired(entry, t) == t > entry.expires_at

\* dict without one key
DictDel(d, k) == [x \in (DOMAIN d) \ {k} |-> d[x]]

\* dict with d[k] = e
DictPut(d, k, e) == [x \in (DOMAIN d) \cup {k} |-> IF x = k THEN e ELSE d[x]]

EmptyDict == [x \in {} |-> None]

CacheGet(key) ==
    /\ IF key \notin DOMAIN cache
         THEN /\ cacheRet' = Return("get", key, None)
              /\ cache' = cache
         ELSE IF Expired(cache[key], now)
                THEN /\ cache' = DictDel(cache, key)
                     /\ cacheRet' = Return("get", key, None)
                ELSE /\ cache' = cache
                     /\ cacheRet' = Return("get", key, cache[key].value)
    /\ UNCHANGED lastSet

\* mutant: the store replaces the dict by one that holds the new entry only
CacheSetAlone(key, value, ttlArg) ==
    /\ cache' = DictPut(EmptyDict, key,
                        [value |-> value, expires_at |-> now + EffectiveTTL(ttlArg)])
    /\ lastSet' = [lastSet EXCEPT ![key] =
                      [value |-> value, given |-> ttlArg.given, ttl |-> ttlArg.val, at |-> now]]
    /\ cacheRet' = Return("set", key, None)

\* set: ttl = ttl or self.default_ttl, then one store into the dict
CacheSet(key, value, ttlArg) ==
    /\ cache' = DictPut(cache, key,
                        [value |-> value, expires_at |-> now + EffectiveTTL(ttlArg)])
    /\ lastSet' = [lastSet EXCEPT ![key] =
                      [value |-> value, given |-> ttlArg.given, ttl |-> ttlArg.val, at |-> now]]
    /\ cacheRet' = Return("set", key, None)

CacheDelete(key) ==
    /\ cache' = IF key \in DOMAIN cache THEN DictDel(cache, key) ELSE cache
    /\ lastSet' = [lastSet EXCEPT ![key] = NoSet]
    /\ cacheRet' = Return("delete", key, None)

CacheClear ==
    /\ cache' = EmptyDict
    /\ lastSet' = [k \in Keys |-> NoSet]
    /\ cacheRet' = Return("clear", None, None)

\* size()
CacheSize == Cardinality(DOMAIN cache)

CacheInit ==
    /\ cache = EmptyDict
    /\ cacheRet = NoCall
    /\ lastSet = [k \in Keys |-> NoSet]

\* ------------------------------------------------------------ RateLimiter
Clients == {"c1", "unknown"}

Max(a, b) == IF a >= b THEN a ELSE b

\* mutant: the age test written the wrong way round, so nothing is dropped
PruneReversed(requests, current_time, window) ==
    SelectSeq(requests, LAMBDA req_time : req_time - current_time < window)

\* [req_time for req_time in requests if current_time - req_time < window]
Prune(requests, current_time, window) ==
    SelectSeq(requests, LAMBDA req_time : current_time - req_time < window)

\* _cleanup_old_requests: the minute list of client_id after cleanup
CleanMinute(client_id, current_time) ==
    Prune(minute_requests[client_id], current_time, MinuteWindow)

\* _cleanup_old_requests: the hour list of client_id after cleanup
CleanHour(client_id, current_time) ==
    Prune(hour_requests[client_id], current_time, HourWindow)

\* mutant: the minute ceiling tested with <= instead of <
MinuteAllowedOffByOne(minute_count) == minute_count <= RequestsPerMinute

\* minute_allowed = minute_count < self.requests_per_minute
MinuteAllowed(minute_count) == minute_count < RequestsPerMinute

\* hour_allowed = hour_count < self.requests_per_hour
HourAllowed(hour_count) == hour_count < RequestsPerHour

\* the (allowed, limits) pair is_allowed returns
Limits(allowed, minute_count, hour_count) ==
    IF allowed
      THEN [minute_remaining |-> RequestsPerMinute - minute_count - 1,
            hour_remaining |-> RequestsPerHour - hour_count - 1]
      ELSE [minute_remaining |-> Max(0, RequestsPerMinute - minute_count),
            hour_remaining |-> Max(0, RequestsPerHour - hour_count)]

\* the minute list is_allowed leaves for the client
MinuteAfter(m, allowed, current_time) ==
    IF allowed THEN Append(m, current_time) ELSE m

\* mutant: the hour list is appended to whether or not the call is allowed
HourAfterAlways(h, allowed, current_time) == Append(h, current_time)

\* the hour list is_allowed leaves for the client
HourAfter(h, allowed, current_time) ==
    IF allowed THEN Append(h, current_time) ELSE h

NoRlCall ==
    [client |-> None, at |-> 0, allowed |-> FALSE,
     minute_count |-> 0, hour_count |-> 0,
     limits |-> [minute_remaining |-> 0, hour_remaining |-> 0]]

IsAllowed(client_id) ==
    LET current_time == now
        m == CleanMinute(client_id, current_time)
        h == CleanHour(client_id, current_time)
        minute_count == Len(m)
        hour_count == Len(h)
        allowed == MinuteAllowed(minute_count) /\ HourAllowed(hour_count)
    IN /\ minute_requests' =
              [minute_requests EXCEPT ![client_id] = MinuteAfter(m, allowed, current_time)]
       /\ hour_requests' =
              [hour_requests EXCEPT ![client_id] = HourAfter(h, allowed, current_time)]
       /\ rlCall' = [client |-> client_id, at |-> current_time, allowed |-> allowed,
                     minute_count |-> minute_count, hour_count |-> hour_count,
                     limits |-> Limits(allowed, minute_count, hour_count)]
       /\ allowedLog' =
              IF allowed
                THEN [allowedLog EXCEPT ![client_id] = Append(@, current_time)]
                ELSE allowedLog

\* ---------------------------------------------------- rate_limit_middleware
\* if request.url.path in ["/", "/docs", "/openapi.json", "/favicon.ico"]
BypassPaths == {"/", "/docs", "/openapi.json", "/favicon.ico"}

\* the request paths explored: the bypass list, the health route, a file
\* under the /static mount, and an ordinary route
Paths == BypassPaths \cup {"/health", "/static/style.css", "/topics"}

\* the requests explored: path, X-Forwarded-For (a comma-separated list, empty
\* when the header is absent), X-Real-IP and the connection peer
Requests ==
    [path : Paths,
     fwd : {<<>>, <<"c1", "proxy">>},
     real : {None, "c1"},
     peer : {None, "c1"}]

\* get_client_id: X-Forwarded-For -> X-Real-IP -> client.host -> "unknown"
GetClientId(request) ==
    IF request.fwd # <<>> THEN Head(request.fwd)
    ELSE IF request.real # None THEN request.real
    ELSE IF request.peer # None THEN request.peer
    ELSE "unknown"

\* the headers rate_limit_middleware puts on the 429 response it builds
DeniedHeaders ==
    {"X-RateLimit-Minute-Remaining", "X-RateLimit-Hour-Remaining", "Retry-After"}

\* What rate_limit_middleware, a plain (non-async) function, hands back.
\* call_next is a coroutine function (catch_exceptions_and_log awaits it), so
\* call_next(request) is a coroutine object that has not run the handler:
\*   bypass:  return call_next(request)            -> the coroutine
\*   denied:  return JSONResponse(status_code=429) -> a response object
\*   allowed: response = call_next(request); response.headers[...] = ...
\*            -> AttributeError, a coroutine has no headers
MiddlewareReturn(decision) ==
    CASE decision = "bypass" -> "coroutine"
      [] decision = "denied" -> "JSONResponse"
      [] decision = "allowed" -> "AttributeError"

\* app.middleware("http")(rate_limit_middleware): the framework awaits what
\* the dispatch function returns. Awaiting the coroutine runs the handler;
\* awaiting a response object raises TypeError; an exception propagates.
DispatchAwait(returned) ==
    CASE returned = "coroutine" ->
            [handler |-> TRUE, raised |-> None, status |-> 200, headers |-> {}]
      [] returned = "JSONResponse" ->
            [handler |-> FALSE, raised |-> "TypeError", status |-> 0, headers |-> {}]
      [] returned = "AttributeError" ->
            [handler |-> FALSE, raised |-> "AttributeError", status |-> 0, headers |-> {}]

\* mutant: only the 500 envelope gets the request id
CatchExceptionsOnly(inner) ==
    IF inner.raised = None
      THEN inner
      ELSE [inner EXCEPT !.status = 500, !.headers = {"X-Request-ID"}]

\* catch_exceptions_and_log, the outer middleware: adds X-Request-ID to a
\* response, turns an exception into the 500 envelope
CatchExceptionsAndLog(inner) ==
    IF inner.raised = None
      THEN [inner EXCEPT !.headers = @ \cup {"X-Request-ID"}]
      ELSE [inner EXCEPT !.status = 500, !.headers = {"X-Request-ID"}]

NoResponse ==
    [path |-> None, decision |-> None, handler |-> FALSE,
     raised |-> None, status |-> 0, headers |-> {}]

\* the whole exchange as the client sees it
Exchange(request, decision) ==
    LET out == CatchExceptionsAndLog(DispatchAwait(MiddlewareReturn(decision)))
    IN [path |-> request.path, decision |-> decision,
        handler |-> out.handler, raised |-> out.raised,
        status |-> out.status, headers |-> out.headers]

RateLimitMiddleware(request) ==
    LET client_id == GetClientId(request)
    IN IF request.path \in BypassPaths
         THEN /\ response' = Exchange(request, "bypass")
              /\ UNCHANGED <<minute_requests, hour_requests, rlCall, allowedLog>>
         ELSE /\ IsAllowed(client_id)
              /\ response' = Exchange(request,
                                      IF rlCall'.allowed THEN "allowed" ELSE "denied")

RlInit ==
    /\ minute_requests = [c \in Clients |-> <<>>]
    /\ hour_requests = [c \in Clients |-> <<>>]
    /\ rlCall = NoRlCall
    /\ allowedLog = [c \in Clients |-> <<>>]
    /\ response = NoResponse
    /\ calls = 0

\* -------------------------------------------------------- ContentGenerator
\* A text is a sequence of symbols: single characters, and the three labels
\* of the response format, each one symbol (no label contains a space or a
\* newline, so a label occurs in a text only as a whole). The source's
\* literals are Cyrillic; they are transliterated here.
TitleLabel == "Zagolovok:"
MetaLabel == "Meta-opisanie:"
ContentLabel == "Kontent:"
Newline == "<newline>"
Space == " "

\* what str.strip() removes
Whitespace == {Space, Newline}

\* the characters of lstrip('*# ')
StripSet == {"*", "#", Space}

\* s.lstrip(chars)
LStrip(s, chars) ==
    LET kept == {i \in 1..Len(s) : s[i] \notin chars}
    IN IF kept = {} THEN <<>>
       ELSE SubSeq(s, CHOOSE i \in kept : \A j \in kept : i <= j, Len(s))

\* s.rstrip(chars)
RStrip(s, chars) ==
    LET kept == {i \in 1..Len(s) : s[i] \notin chars}
    IN IF kept = {} THEN <<>>
       ELSE SubSeq(s, 1, CHOOSE i \in kept : \A j \in kept : i >= j)

\* s.strip()
Strip(s) == RStrip(LStrip(s, Whitespace), Whitespace)

\* sep in s
Contains(s, sep) == \E i \in 1..Len(s) : s[i] = sep

\* the index of the first occurrence of sep in s
FirstIndex(s, sep) ==
    CHOOSE i \in 1..Len(s) : s[i] = sep /\ \A j \in 1..(i - 1) : s[j] # sep

\* s.split(sep, 1)[1], for sep in s
AfterFirst(s, sep) == SubSeq(s, FirstIndex(s, sep) + 1, Len(s))

\* s.split(sep, 1)[0]
BeforeFirst(s, sep) ==
    IF Contains(s, sep) THEN SubSeq(s, 1, FirstIndex(s, sep) - 1) ELSE s

\* mutant: the line is not cut at the newline
ParseLineWholeRest(full_content, label) ==
    IF Contains(full_content, label)
      THEN Strip(AfterFirst(full_content, label))
      ELSE <<>>

\* full_content.split(label, 1)[1].split("\n", 1)[0].strip(), "" without label
ParseLine(full_content, label) ==
    IF Contains(full_content, label)
      THEN Strip(BeforeFirst(AfterFirst(full_content, label), Newline))
      ELSE <<>>

\* full_content.split(label, 1)[1].strip(), "" without label
ParseRest(full_content, label) ==
    IF Contains(full_content, label)
      THEN Strip(AfterFirst(full_content, label))
      ELSE <<>>

\* s.strip().lstrip('*# ').strip()
Cleanup(s) == Strip(LStrip(Strip(s), StripSet))

ErrorTitle == <<"Oshibka generatsii">>
NoDataBody == <<"Ne udalos poluchit dannye ot DeepSeek API">>

\* title if title else f"Post na temu: {topic}"
TitleOrFallback(title, t) == IF title # <<>> THEN title ELSE <<"Post na temu: ", t>>

\* the payload generate_post builds from a non-empty full_content
ParsedPayload(t, full_content) ==
    [raised |-> None,
     topic |-> t,
     title |-> TitleOrFallback(Cleanup(ParseLine(full_content, TitleLabel)), t),
     meta_description |-> Cleanup(ParseLine(full_content, MetaLabel)),
     post_content |-> Cleanup(ParseRest(full_content, ContentLabel))]

\* the payload generate_post returns when full_content is None or empty
NoDataPayload(t) ==
    [raised |-> None, topic |-> t, title |-> ErrorTitle,
     meta_description |-> <<>>, post_content |-> NoDataBody]

\* the payload generate_post returns from its except branch
ErrorPayload(t, message) ==
    [raised |-> None, topic |-> t, title |-> ErrorTitle,
     meta_description |-> <<>>, post_content |-> <<"Proizoshla oshibka: ", message>>]

\* generate_post leaves by an exception it does not catch
Propagated(t, exc) ==
    [raised |-> exc, topic |-> t, title |-> <<>>,
     meta_description |-> <<>>, post_content |-> <<>>]

\* mutant: only the request errors are caught
CaughtRequestErrorsOnly(exc) == exc \in {"Timeout", "RequestException"}

\* except Exception as e: every exception of the try block is caught
Caught(exc) == TRUE

\* str(e) of the exceptions the provider call ends with
Message(exc) ==
    CASE exc = "Timeout" -> "Request timeout"
      [] exc = "RequestException" -> "HTTP error"
      [] exc = "Exception" -> "malformed payload"

\* the outcome of generate_with_deepseek
Pending == [kind |-> "pending", text |-> <<>>, exc |-> None]
ReturnNone == [kind |-> "none", text |-> <<>>, exc |-> None]
ReturnText(text) == [kind |-> "text", text |-> text, exc |-> None]
Raise(exc) == [kind |-> "raise", text |-> <<>>, exc |-> exc]

NoPayload ==
    [raised |-> None, topic |-> None, title |-> <<>>,
     meta_description |-> <<>>, post_content |-> <<>>]

\* -- what the provider may answer --
\* the characters of X, of Y, and of Z (which may hold newlines)
TitleChars == {"a", Space, "*", MetaLabel, ContentLabel}
MetaChars == {"a", Space, ContentLabel}
BodyChars == {"a", "#", Newline}
\* the characters of a response that does not follow the format
FreeChars == {"a", Newline, TitleLabel, ContentLabel}

\* "Zagolovok: X\nMeta-opisanie: Y\nKontent: Z"
Render(x, y, z) ==
    <<TitleLabel, Space>> \o x \o <<Newline, MetaLabel, Space>> \o y
        \o <<Newline, ContentLabel, Space>> \o z

NoAnswer == [kind |-> None, form |-> None, x |-> <<>>, y |-> <<>>, z |-> <<>>, text |-> <<>>]

\* an attempt that ends without a usable response body
Failure(kind) == [NoAnswer EXCEPT !.kind = kind]

\* the lengths of X, Y and Z explored: MaxText symbols together
Lengths ==
    {l \in (0..MaxText) \X (0..MaxText) \X (0..MaxText) : l[1] + l[2] + l[3] <= MaxText}

\* the responses in the labelled format
LabelledAnswers ==
    UNION {
        {[kind |-> "content", form |-> "labelled", x |-> x, y |-> y, z |-> z,
          text |-> Render(x, y, z)] :
            x \in [1..l[1] -> TitleChars], y \in [1..l[2] -> MetaChars],
            z \in [1..l[3] -> BodyChars]} :
        l \in Lengths }

\* the responses that do not follow the format, the empty content among them
FreeAnswers ==
    UNION {
        {[kind |-> "content", form |-> "free", x |-> <<>>, y |-> <<>>, z |-> <<>>,
          text |-> t] : t \in [1..n -> FreeChars]} : n \in 0..MaxText }

\* how one requests.post attempt can end: Timeout, another RequestException
\* (connection error, raise_for_status), an exception that is no
\* RequestException (a payload of the wrong shape), or a JSON body
Answers ==
    {Failure("Timeout"), Failure("RequestException"), Failure("Exception")}
        \cup LabelledAnswers \cup FreeAnswers

Topics == {"topic1", "topic2"}

\* who calls generate_with_deepseek: generate_post with a topic, or a direct
\* caller, which has none
Invocations ==
    {[caller |-> "direct", topic |-> None]}
        \cup {[caller |-> "generate_post", topic |-> t] : t \in Topics}

\* mutant: the last attempt is retried too (if attempt < 3)
ShouldRetryAlways(a) == a < RetryBelow + 1

\* mutant: only the first attempt is retried (if attempt < 1)
ShouldRetryOnce(a) == a < RetryBelow - 1

\* if attempt < 2: sleep and continue, else re-raise
ShouldRetry(a) == a < RetryBelow

\* generate_with_deepseek is entered: by generate_post (line 97) or directly
GenCall(c, t) ==
    /\ \/ gpc \in {"idle", "done"}
       \/ gpc = "returned" /\ caller = "direct"
    /\ gpc' = "attempt"
    /\ caller' = c
    /\ topic' = t
    /\ attempt' = 0
    /\ post_calls' = 0
    /\ pauses' = <<>>
    /\ outcomes' = <<>>
    /\ provided' = NoAnswer
    /\ genResult' = Pending
    /\ payload' = NoPayload

\* mutant: every request error is retried like a timeout
GenAttemptRetriesErrors(answer) ==
    /\ gpc = "attempt"
    /\ post_calls' = post_calls + 1
    /\ outcomes' = Append(outcomes, answer.kind)
    /\ provided' = answer
    /\ CASE answer.kind \in {"Timeout", "RequestException"} ->
              IF ShouldRetry(attempt)
                THEN gpc' = "sleep" /\ genResult' = genResult
                ELSE gpc' = "returned" /\ genResult' = Raise(answer.kind)
         [] answer.kind = "content" ->
              /\ gpc' = "returned"
              /\ genResult' = IF answer.text = <<>>
                                THEN ReturnNone
                                ELSE ReturnText(Strip(answer.text))
         [] OTHER ->
              /\ gpc' = "returned"
              /\ genResult' = Raise(answer.kind)
    /\ UNCHANGED <<caller, topic, attempt, pauses, payload>>

\* one pass through the loop body: requests.post and what follows it
GenAttempt(answer) ==
    /\ gpc = "attempt"
    /\ post_calls' = post_calls + 1
    /\ outcomes' = Append(outcomes, answer.kind)
    /\ provided' = answer
    /\ CASE answer.kind = "Timeout" ->
              IF ShouldRetry(attempt)
                THEN gpc' = "sleep" /\ genResult' = genResult
                ELSE gpc' = "returned" /\ genResult' = Raise("Timeout")
         [] answer.kind = "content" ->
              /\ gpc' = "returned"
              /\ genResult' = IF answer.text = <<>>
                                THEN ReturnNone
                                ELSE ReturnText(Strip(answer.text))
         [] OTHER ->
              /\ gpc' = "returned"
              /\ genResult' = Raise(answer.kind)
    /\ UNCHANGED <<caller, topic, attempt, pauses, payload>>

\* time.sleep(2); continue -- the loop ends with None when range(3) runs out
GenSleep ==
    /\ gpc = "sleep"
    /\ pauses' = Append(pauses, RetryPause)
    /\ attempt' = attempt + 1
    /\ IF attempt + 1 < MaxAttempts
         THEN gpc' = "attempt" /\ genResult' = genResult
         ELSE gpc' = "returned" /\ genResult' = ReturnNone
    /\ UNCHANGED <<caller, topic, post_calls, outcomes, provided, payload>>

\* generate_post after generate_with_deepseek has returned or raised
GeneratePostFinish ==
    /\ gpc = "returned"
    /\ caller = "generate_post"
    /\ gpc' = "done"
    /\ payload' =
          CASE genResult.kind = "raise" ->
                  IF Caught(genResult.exc)
                    THEN ErrorPayload(topic, Message(genResult.exc))
                    ELSE Propagated(topic, genResult.exc)
            [] genResult.kind = "text" /\ genResult.text # <<>> ->
                  ParsedPayload(topic, genResult.text)
            [] OTHER -> NoDataPayload(topic)
    /\ UNCHANGED <<caller, topic, attempt, post_calls, pauses, outcomes,
                   provided, genResult>>

GenInit ==
    /\ gpc = "idle"
    /\ caller = None
    /\ topic = None
    /\ attempt = 0
    /\ post_calls = 0
    /\ pauses = <<>>
    /\ outcomes = <<>>
    /\ provided = NoAnswer
    /\ genResult = Pending
    /\ payload = NoPayload

\* ----------------------------------------------------------- POST /generate
GeneratePath == "/generate"

\* how the provider would answer the generation call of a request: a
\* well-formed labelled text, three timeouts, an HTTP error, or a payload of
\* the wrong shape
Upstreams == {"labelled", "Timeout", "RequestException", "Exception"}

\* the well-formed labelled text of the provider
WellFormedText == Render(<<"a">>, <<"a">>, <<"a">>)

\* EnhancedGenerateRequest.style: Optional[str]
Styles == {None, "style1"}

\* the users whose token resolves through get_current_active_user
ApiUsers == {"admin", "user"}

\* the POST /generate requests explored
GenerateRequests ==
    [path : {GeneratePath}, fwd : {<<>>}, real : {None}, peer : {None, "c1"},
     topic : Topics, style : Styles, user : ApiUsers, upstream : Upstreams]

\* what ContentGenerator.generate_post(topic) returns for a provider outcome
GeneratePostResult(t, upstream) ==
    IF upstream = "labelled"
      THEN ParsedPayload(t, Strip(WellFormedText))
      ELSE IF Caught(upstream)
             THEN ErrorPayload(t, Message(upstream))
             ELSE Propagated(t, upstream)

\* positional arguments the endpoint passes: (request.topic, request.style)
GenerateCallArgs == 2
\* positional parameters of ContentGenerator.generate_post besides self
GeneratePostParams == 1

\* generator.generate_post(request.topic, request.style): Python binds the
\* arguments before the body runs; one argument too many raises TypeError
GeneratorCall(t, upstream) ==
    IF GenerateCallArgs = GeneratePostParams
      THEN GeneratePostResult(t, upstream)
      ELSE Propagated(t, "TypeError")

NoBody == [title |-> <<>>, meta_description |-> <<>>, post_content |-> <<>>]

\* the endpoint function generate_post of main.py: return result, or
\* except Exception -> HTTPException(500, {"error": ..., "details": str(e)})
GenerateEndpoint(request) ==
    LET result == GeneratorCall(request.topic, request.upstream)
    IN IF result.raised = None
         THEN [status |-> 200, error |-> None, details |-> None,
               body |-> [title |-> result.title,
                         meta_description |-> result.meta_description,
                         post_content |-> result.post_content]]
         ELSE [status |-> 500, error |-> "Oshibka generatsii kontenta",
               details |-> result.raised, body |-> NoBody]

\* the 500 envelope of catch_exceptions_and_log
InternalError(exc) ==
    [status |-> 500, error |-> "Internal Server Error", details |-> exc,
     body |-> NoBody]

NoApiResponse ==
    [level |-> None, topic |-> None, upstream |-> None, decision |-> None,
     status |-> 0, error |-> None, details |-> None, body |-> NoBody]

ApiResponse(level, request, decision, out) ==
    [level |-> level, topic |-> request.topic, upstream |-> request.upstream,
     decision |-> decision, status |-> out.status, error |-> out.error,
     details |-> out.details, body |-> out.body]

\* POST /generate as the client sees it: catch_exceptions_and_log around
\* rate_limit_middleware around the route. The path is not on the bypass
\* list, so the limiter decides and the exchange ends inside the middleware.
GenerateExchange(request) ==
    /\ IsAllowed(GetClientId(request))
    /\ LET decision == IF rlCall'.allowed THEN "allowed" ELSE "denied"
           out == Exchange(request, decision)
       IN /\ response' = out
          /\ apiResponse' =
                ApiResponse("client", request, decision,
                            IF out.handler THEN GenerateEndpoint(request)
                            ELSE InternalError(out.raised))

\* the endpoint function called with its dependencies resolved
GenerateDirect(request) ==
    apiResponse' = ApiResponse("endpoint", request, None, GenerateEndpoint(request))

ApiInit == apiResponse = NoApiResponse

\* -------------------------------------------------------- password hashing
\* pwd_context = CryptContext(schemes=["bcrypt"]): bcrypt keys on at most the
\* first 72 bytes of the password and stores a random salt in the hash.
Min(a, b) == IF a <= b THEN a ELSE b

\* a run of n equal characters
Pad(n) == [i \in 1..n |-> "x"]

\* the passwords of the round trip: short ones, and ones that reach past the
\* bytes bcrypt reads
Suffixes == UNION {[1..n -> {"a", "b"}] : n \in 0..MaxSuffix}
PadLengths == {0, BcryptMaxBytes - 1}
PasswordInputs == {Pad(n) \o s : n \in PadLengths, s \in Suffixes}

Salts == {"salt1", "salt2"}

\* the bytes of the password bcrypt reads
BcryptKey(password) == SubSeq(password, 1, Min(Len(password), BcryptMaxBytes))

\* get_password_hash: pwd_context.hash(password), under the salt it draws
GetPasswordHash(password, salt) == [salt |-> salt, digest |-> BcryptKey(password)]

\* verify_password: pwd_context.verify hashes the plain password under the
\* salt of the stored hash and compares
VerifyPassword(plain_password, hashed_password) ==
    GetPasswordHash(plain_password, hashed_password.salt) = hashed_password

\* no password, no hash
NoPassword == <<None>>
NoHash == [salt |-> None, digest |-> NoPassword]

NoPwRet ==
    [called |-> FALSE, plain |-> NoPassword, other |-> NoPassword,
     hashed |-> NoHash, verified |-> FALSE]

\* verify_password(p, get_password_hash(q))
HashAndVerify(p, q, salt) ==
    LET hashed == GetPasswordHash(q, salt)
    IN pwRet' = [called |-> TRUE, plain |-> p, other |-> q, hashed |-> hashed,
                 verified |-> VerifyPassword(p, hashed)]

PwInit == pwRet = NoPwRet

\* ------------------------------------------------------------- AuthService
AdminPassword == <<"a", "d", "m", "i", "n", "1", "2", "3">>
UserPassword == <<"u", "s", "e", "r", "1", "2", "3">>
\* two passwords of 73 characters that differ in the last one only
LongPasswordA == Pad(BcryptMaxBytes - 1) \o <<"a", "a">>
LongPasswordB == Pad(BcryptMaxBytes - 1) \o <<"a", "b">>

\* the passwords explored in the calls of the service
Passwords == {AdminPassword, UserPassword, LongPasswordA, LongPasswordB}

\* the usernames explored: the two of fake_users_db and one that is not there
Usernames == {"admin", "user", "bob"}

UserRecord(username, full_name, email, hashed_password, disabled) ==
    [username |-> username, full_name |-> full_name, email |-> email,
     hashed_password |-> hashed_password, disabled |-> disabled]

\* the None of get_user and authenticate_user
NoUser == UserRecord(None, None, None, NoHash, FALSE)

\* get_user: the record, or None
GetUser(db, username) == IF username \in DOMAIN db THEN db[username] ELSE NoUser

\* mutant: the password is not checked
AuthenticateUserNoPassword(fake_db, username, password) ==
    GetUser(fake_db, username)

\* authenticate_user: the record when the user exists and the password
\* verifies against the stored hash, else None
AuthenticateUser(fake_db, username, password) ==
    LET user == GetUser(fake_db, username)
    IN IF user = NoUser THEN NoUser
       ELSE IF ~VerifyPassword(password, user.hashed_password) THEN NoUser
       ELSE user

\* the key tokens are signed with, and the key of a forger
SecretKey == "SECRET_KEY"
ForgedKey == "forged"

\* create_access_token: exp = utcnow() + expires_delta, or + 15 minutes
\* when expires_delta is falsy (None, written 0 here, or a zero timedelta);
\* the token is signed with SECRET_KEY.
\* iat, via and inactive are bookkeeping of the model: when and by whom it
\* was made, and whether its subject was disabled at that moment.
CreateAccessToken(sub, expires_delta, via) ==
    [sub |-> sub,
     exp |-> now + (IF expires_delta # 0 THEN expires_delta ELSE DefaultTokenSeconds),
     sig |-> SecretKey, iat |-> now, via |-> via,
     inactive |-> GetUser(fake_users_db, sub).disabled]

\* mutant: the expiry is not checked
JwtDecodeIgnoresExpiry(token, current_time) ==
    IF token.sig # SecretKey THEN "JWTError"
    ELSE "payload"

\* jwt.decode: JWTError on a signature that does not verify and on
\* exp < now, else the payload
JwtDecode(token, current_time) ==
    IF token.sig # SecretKey THEN "JWTError"
    ELSE IF token.exp < current_time THEN "JWTError"
    ELSE "payload"

Unauthorized == [status |-> 401, user |-> None]

\* mutant: a disabled user's token is rejected at verification
GetCurrentUserActiveOnly(token, db, current_time) ==
    IF JwtDecode(token, current_time) = "JWTError" THEN Unauthorized
    ELSE IF token.sub = None THEN Unauthorized
    ELSE IF GetUser(db, token.sub) = NoUser THEN Unauthorized
    ELSE IF db[token.sub].disabled THEN Unauthorized
    ELSE [status |-> 200, user |-> token.sub]

\* get_current_user: 401 on JWTError, on a payload without sub, and on a sub
\* that is not in fake_users_db; else the user
GetCurrentUser(token, db, current_time) ==
    IF JwtDecode(token, current_time) = "JWTError" THEN Unauthorized
    ELSE IF token.sub = None THEN Unauthorized
    ELSE IF GetUser(db, token.sub) = NoUser THEN Unauthorized
    ELSE [status |-> 200, user |-> token.sub]

\* mutant: the disabled flag is not looked at
GetCurrentActiveUserUnchecked(token, db, current_time) ==
    GetCurrentUser(token, db, current_time)

\* get_current_active_user: 400 for a disabled user
GetCurrentActiveUser(token, db, current_time) ==
    LET current_user == GetCurrentUser(token, db, current_time)
    IN IF current_user.status # 200 THEN current_user
       ELSE IF db[current_user.user].disabled THEN [status |-> 400, user |-> None]
       ELSE current_user

\* mutant: every active user passes
RequireAdminAnyone(token, db, current_time) ==
    GetCurrentActiveUser(token, db, current_time)

\* require_admin: 403 unless current_user.username == "admin"
RequireAdmin(token, db, current_time) ==
    LET current_user == GetCurrentActiveUser(token, db, current_time)
    IN IF current_user.status # 200 THEN current_user
       ELSE IF current_user.user # "admin" THEN [status |-> 403, user |-> None]
       ELSE current_user

NoToken ==
    [sub |-> None, exp |-> 0, sig |-> None, iat |-> 0, via |-> None,
     inactive |-> FALSE]

NoAuthRet ==
    [op |-> None, username |-> None, password |-> NoPassword, new |-> NoPassword,
     target |-> None, ok |-> FALSE, status |-> 0, token |-> NoToken, at |-> 0]

NoChange == [username |-> None, old |-> NoPassword, new |-> NoPassword]

AuthRet(op, username, password, new, target, ok, status, token) ==
    [op |-> op, username |-> username, password |-> password, new |-> new,
     target |-> target, ok |-> ok, status |-> status, token |-> token, at |-> now]

\* a token can be added to the ones in circulation
Room(token) == Cardinality(issued \cup {token}) <= MaxTokens

\* AuthService.login
Login(username, password) ==
    LET user == AuthenticateUser(fake_users_db, username, password)
        access_token == CreateAccessToken(username, TokenSeconds, "login")
    IN IF user = NoUser
         THEN /\ authRet' = AuthRet("login", username, password, NoPassword, None,
                                    FALSE, 401, NoToken)
              /\ UNCHANGED <<fake_users_db, issued, lastChange, passwords>>
         ELSE /\ Room(access_token)
              /\ issued' = issued \cup {access_token}
              /\ authRet' = AuthRet("login", username, password, NoPassword, None,
                                    TRUE, 200, access_token)
              /\ UNCHANGED <<fake_users_db, lastChange, passwords>>

\* create_access_token called on its own, without expires_delta
CreateToken(sub) ==
    LET token == CreateAccessToken(sub, 0, "direct")
    IN /\ Room(token)
       /\ issued' = issued \cup {token}
       /\ authRet' = AuthRet("create_access_token", sub, NoPassword, NoPassword, None,
                             TRUE, 200, token)
       /\ UNCHANGED <<fake_users_db, lastChange, passwords>>

\* mutant: the record is written whether or not the username is taken
RegisterOverwrite(username, email, password, full_name, salt) ==
    /\ fake_users_db' =
          DictPut(fake_users_db, username,
                  UserRecord(username, full_name, email,
                             GetPasswordHash(password, salt), FALSE))
    /\ passwords' = DictPut(passwords, username, password)
    /\ authRet' = AuthRet("register", username, password, NoPassword, None,
                          TRUE, 200, NoToken)
    /\ UNCHANGED <<issued, lastChange>>

\* AuthService.register
Register(username, email, password, full_name, salt) ==
    IF username \in DOMAIN fake_users_db
      THEN /\ authRet' = AuthRet("register", username, password, NoPassword, None,
                                 FALSE, 400, NoToken)
           /\ UNCHANGED <<fake_users_db, issued, lastChange, passwords>>
      ELSE /\ fake_users_db' =
                 DictPut(fake_users_db, username,
                         UserRecord(username, full_name, email,
                                    GetPasswordHash(password, salt), FALSE))
           /\ passwords' = DictPut(passwords, username, password)
           /\ authRet' = AuthRet("register", username, password, NoPassword, None,
                                 TRUE, 200, NoToken)
           /\ UNCHANGED <<issued, lastChange>>

\* AuthService.change_password
ChangePassword(username, old_password, new_password, salt) ==
    LET user == AuthenticateUser(fake_users_db, username, old_password)
    IN IF user = NoUser
         THEN /\ authRet' = AuthRet("change_password", username, old_password,
                                    new_password, None, FALSE, 400, NoToken)
              /\ UNCHANGED <<fake_users_db, issued, lastChange, passwords>>
         ELSE /\ fake_users_db' =
                    [fake_users_db EXCEPT
                        ![username].hashed_password = GetPasswordHash(new_password, salt)]
              /\ passwords' = [passwords EXCEPT ![username] = new_password]
              /\ lastChange' = [username |-> username, old |-> old_password,
                                new |-> new_password]
              /\ authRet' = AuthRet("change_password", username, old_password,
                                    new_password, None, TRUE, 200, NoToken)
              /\ UNCHANGED issued

\* a dependency chain that ends at get_current_user (token verification)
VerifyToken(token) ==
    LET current_user == GetCurrentUser(token, fake_users_db, now)
    IN /\ authRet' = AuthRet("get_current_user", current_user.user, NoPassword,
                             NoPassword, None, current_user.status = 200,
                             current_user.status, token)
       /\ UNCHANGED <<fake_users_db, issued, lastChange, passwords>>

\* GET /auth/me: the get_current_active_user dependency, then the handler,
\* which returns the user
GetCurrentUserInfo(token) ==
    LET current_user == GetCurrentActiveUser(token, fake_users_db, now)
    IN /\ authRet' = AuthRet("get_current_user_info", current_user.user, NoPassword,
                             NoPassword, None, current_user.status = 200,
                             current_user.status, token)
       /\ UNCHANGED <<fake_users_db, issued, lastChange, passwords>>

AdminOps == {"get_users", "disable_user", "enable_user"}

\* GET /admin/users, POST /admin/users/{username}/disable|enable: the
\* require_admin dependency, then the handler (404 for an unknown username)
AdminEndpoint(op, token, username) ==
    LET admin == RequireAdmin(token, fake_users_db, now)
        reached == admin.status = 200
        found == op = "get_users" \/ username \in DOMAIN fake_users_db
        status == IF ~reached THEN admin.status ELSE IF found THEN 200 ELSE 404
    IN /\ authRet' = AuthRet(op, token.sub, NoPassword, NoPassword, username, reached,
                             status, token)
       /\ fake_users_db' =
             IF reached /\ found /\ op # "get_users"
               THEN [fake_users_db EXCEPT ![username].disabled = (op = "disable_user")]
               ELSE fake_users_db
       /\ UNCHANGED <<issued, lastChange, passwords>>

\* fake_users_db as the module defines it; the salts are whatever
\* pwd_context.hash drew at import
AuthInit ==
    /\ fake_users_db =
          [u \in {"admin", "user"} |->
              IF u = "admin"
                THEN UserRecord("admin", "Administrator", "admin@example.com",
                                GetPasswordHash(AdminPassword, "salt1"), FALSE)
                ELSE UserRecord("user", "Regular User", "user@example.com",
                                GetPasswordHash(UserPassword, "salt1"), FALSE)]
    /\ passwords = [u \in {"admin", "user"} |->
                       IF u = "admin" THEN AdminPassword ELSE UserPassword]
    /\ issued = {}
    /\ authRet = NoAuthRet
    /\ lastChange = NoChange

\* ----------------------------------------------------------- HealthChecker
\* time.time() when the process starts; the model's clock counts from it
StartTime == 1000000

\* the probes registered at import: name -> interval_seconds
DatabaseInterval == 30
ExternalApisInterval == 60
DiskSpaceInterval == 300

CheckInfo(function, interval) == [function |-> function, interval |-> interval]

\* how a probe function can end: with a result (the true one here; a false
\* one takes the same branch) or with an exception
ProbeOutcomes == {"healthy", "error"}

\* the names and intervals add_check is called with after import
AddedNames == {"database", "custom"}
AddedIntervals == {DatabaseInterval, ExternalApisInterval}

\* add_check: checks[name] = {function, interval}
AddCheck(name, check_func, interval_seconds) ==
    /\ checks' = DictPut(checks, name, CheckInfo(check_func, interval_seconds))
    /\ UNCHANGED <<last_check, healthRet, runs>>

\* self.last_check.get(name, 0)
LastCheckTime(name) == IF name \in DOMAIN last_check THEN last_check[name] ELSE 0

\* mutant: one time of the last run shared by all probes
DueShared(name, current_time) ==
    LET latest == CHOOSE t \in {LastCheckTime(n) : n \in DOMAIN checks} :
                      \A n \in DOMAIN checks : LastCheckTime(n) <= t
    IN ~(current_time - latest < checks[name].interval)

\* the probe is run unless current_time - last_check_time < interval
Due(name, current_time) ==
    ~(current_time - LastCheckTime(name) < checks[name].interval)

NoHealthRet == [called |-> FALSE, n |-> 0, at |-> 0, results |-> EmptyDict]

\* check_health: every due probe is run, its result or its exception is put
\* in the results, and its last_check is set to the time of the call
CheckHealth(outcome) ==
    LET current_time == StartTime + now
        due == {name \in DOMAIN checks : Due(name, current_time)}
    IN /\ healthRet' =
              [called |-> TRUE, n |-> calls + 1, at |-> current_time,
               results |-> [name \in due |->
                               [status |-> outcome[name], timestamp |-> current_time]]]
       /\ last_check' =
              [name \in (DOMAIN last_check) \cup due |->
                  IF name \in due THEN current_time ELSE last_check[name]]
       /\ runs' =
              [name \in (DOMAIN runs) \cup due |->
                  IF name \in due
                    THEN Append(IF name \in DOMAIN runs THEN runs[name] ELSE <<>>,
                                [at |-> current_time,
                                 function |-> checks[name].function,
                                 interval |-> checks[name].interval,
                                 status |-> outcome[name]])
                    ELSE runs[name]]
       /\ UNCHANGED checks

\* GET /health: the aggregate status is computed from what this call of
\* check_health returned
\*   for check_name, check_result in health_status.items():
\*       if check_result.get('status') != 'healthy': overall_status = "unhealthy"
HealthCheck(health_status) ==
    [status |-> IF \E check_name \in DOMAIN health_status :
                       health_status[check_name].status # "healthy"
                  THEN "unhealthy"
                  ELSE "healthy",
     checks |-> health_status]

\* health_checker with the three checks added at import
HealthInit ==
    /\ checks =
          [name \in {"database", "external_apis", "disk_space"} |->
              CASE name = "database" ->
                      CheckInfo("check_database_connection", DatabaseInterval)
                [] name = "external_apis" ->
                      CheckInfo("check_external_apis", ExternalApisInterval)
                [] name = "disk_space" ->
                      CheckInfo("check_disk_space", DiskSpaceInterval)]
    /\ last_check = EmptyDict
    /\ healthRet = NoHealthRet
    /\ runs = EmptyDict

\* -------------------------------------------------------- MetricsCollector
\* the request/response pairs record_request is called with: path, method,
\* status_code, response_time (whole milliseconds) and the client address
RequestMetrics(path, method, status_code, response_time, client_ip) ==
    [path |-> path, method |-> method, status_code |-> status_code,
     response_time |-> response_time, client_ip |-> client_ip]

MetricSamples ==
    {RequestMetrics("/", "GET", 200, 1, "10.0.0.1"),
     RequestMetrics("/generate", "POST", 500, 3, "10.0.0.1"),
     RequestMetrics("/generate", "POST", 429, 1, "10.0.0.2"),
     RequestMetrics("/topics", "GET", 307, 2, "10.0.0.2"),
     RequestMetrics("/", "GET", 101, 1, "10.0.0.2")}

\* mutant: a full deque refuses the new element instead of dropping the oldest
DequeAppendKeepOldest(d, x, maxlen) ==
    IF Len(d) >= maxlen THEN d ELSE Append(d, x)

\* deque(maxlen=maxlen).append(x): a full deque drops its leftmost element
DequeAppend(d, x, maxlen) ==
    IF maxlen = 0 THEN d
    ELSE IF Len(d) = maxlen THEN Append(Tail(d), x)
    ELSE Append(d, x)

\* dict.get(k, 0) + 1
Incremented(d, k) == DictPut(d, k, (IF k \in DOMAIN d THEN d[k] ELSE 0) + 1)

\* f"{metric.method} {metric.path}"
Endpoint(metric) == <<metric.method, metric.path>>

\* _update_metrics: the counters after one more metric. The average response
\* time is kept as the sum it is the quotient of: average = sum / total.
UpdateMetrics(m, metric) ==
    [total_requests |-> m.total_requests + 1,
     successful_requests |->
         m.successful_requests
           + (IF 200 <= metric.status_code /\ metric.status_code < 400 THEN 1 ELSE 0),
     failed_requests |->
         m.failed_requests
           + (IF 200 <= metric.status_code /\ metric.status_code < 400 THEN 0 ELSE 1),
     response_time_sum |-> m.response_time_sum + metric.response_time,
     unique_clients |-> m.unique_clients \cup {metric.client_ip},
     endpoint_usage |-> Incremented(m.endpoint_usage, Endpoint(metric)),
     error_counts |->
         IF metric.status_code >= 400
           THEN Incremented(m.error_counts, metric.status_code)
           ELSE m.error_counts]

\* APIMetrics()
NewMetrics ==
    [total_requests |-> 0, successful_requests |-> 0, failed_requests |-> 0,
     response_time_sum |-> 0, unique_clients |-> {},
     endpoint_usage |-> EmptyDict, error_counts |-> EmptyDict]

\* the RequestMetrics record_request builds: timestamp = datetime.now()
Stamped(metric) ==
    [path |-> metric.path, method |-> metric.method,
     status_code |-> metric.status_code, response_time |-> metric.response_time,
     client_ip |-> metric.client_ip, timestamp |-> StartTime + now]

\* record_request: append to the history, then update the counters
RecordRequest(sample) ==
    LET metric == Stamped(sample)
    IN /\ request_history' = DequeAppend(request_history, metric, max_history)
       /\ metrics' = UpdateMetrics(metrics, metric)
       /\ recorded' = Append(recorded, metric)
       /\ UNCHANGED max_history

\* MetricsCollector(max_history): an empty history of the given capacity
NewCollector(capacity) ==
    /\ max_history' = capacity
    /\ request_history' = <<>>
    /\ metrics' = NewMetrics
    /\ recorded' = <<>>

\* metrics_collector = MetricsCollector()
MetricsInit ==
    /\ max_history = DefaultMaxHistory
    /\ request_history = <<>>
    /\ metrics = NewMetrics
    /\ recorded = <<>>

\* -------------------------------------------------------------- TelegramBot
\* TelegramConfig: enabled, and whether bot_token and chat_id are both set
TelegramConfig(enabled, configured) == [enabled |-> enabled, configured |-> configured]

\* how requests.post to the chat-bot endpoint can end: an answer, an error
\* status or a connection error, or the 10 second timeout
PostOutcomes == {"ok", "error", "timeout"}

\* the messages notifications are sent with
TestMessage == "test notification"
RootMessage == "API is up"
ImageErrorMessage == "image generation failed"
ApiErrorMessage == "API error"

\* mutant: the task is added whether or not notifications are enabled
SendAsyncAlways(tasks, message) == Append(tasks, message)

\* send_async: if self.config.enabled: background_tasks.add_task(...)
\* -- the task list it leaves; nothing else is touched
SendAsync(tasks, message) ==
    IF tgConfig.enabled THEN Append(tasks, message) ELSE tasks

\* send_notification: returns at once when disabled or misconfigured, else
\* one requests.post whose exception is logged and swallowed
\* -- the log of outbound calls it leaves
SendNotification(message, outcome) ==
    IF ~tgConfig.enabled \/ ~tgConfig.configured
      THEN posts
      ELSE Append(posts, [message |-> message, outcome |-> outcome,
                          request |-> notifyRet.n, responded |-> notifyRet.sent])

\* The places that call send_async, each with the task list it passes, the
\* message, and the response it goes on to build:
\*   test_telegram   the injected background_tasks; returns 200
\*   root            a new BackgroundTasks(), referenced by nothing else; 200
\*   get_image       the injected background_tasks, then raise HTTPException:
\*                   the framework attaches injected tasks to the response of a
\*                   handler that returned, so these are dropped
\*   unhandled       catch_exceptions_and_log's except branch: a new
\*                   BackgroundTasks(), and JSONResponse(500) without background
Callers == {"test_telegram", "root", "get_image", "unhandled"}

\* the task list is the one the framework runs after sending the response
Attached(via) == via = "test_telegram"

CallerMessage(via) ==
    CASE via = "test_telegram" -> TestMessage
      [] via = "root" -> RootMessage
      [] via = "get_image" -> ImageErrorMessage
      [] via = "unhandled" -> ApiErrorMessage

\* the status of the response the caller builds; for an unhandled exception
\* it is the envelope of catch_exceptions_and_log
CallerStatus(via) ==
    CASE via \in {"test_telegram", "root"} -> 200
      [] via = "get_image" -> 500
      [] via = "unhandled" ->
            CatchExceptionsAndLog(DispatchAwait(MiddlewareReturn("allowed"))).status

NoNotifyRet ==
    [n |-> 0, via |-> None, status |-> 0, sent |-> FALSE,
     enabled |-> FALSE, configured |-> FALSE, enqueued |-> 0]

\* the caller runs up to its return: send_async, then the response is built
HandleRequest(via) ==
    /\ npc = "idle"
    /\ background_tasks' = SendAsync(<<>>, CallerMessage(via))
    /\ notifyRet' = [n |-> calls + 1, via |-> via, status |-> CallerStatus(via),
                     sent |-> FALSE,
                     enabled |-> tgConfig.enabled, configured |-> tgConfig.configured,
                     enqueued |-> Len(background_tasks')]
    /\ npc' = "responding"
    /\ UNCHANGED <<tgConfig, posts>>

\* the response goes out to the client
SendResponse ==
    /\ npc = "responding"
    /\ notifyRet' = [notifyRet EXCEPT !.sent = TRUE]
    /\ npc' = "tasks"
    /\ UNCHANGED <<tgConfig, background_tasks, posts>>

\* the framework runs the next task of an attached list
RunTask(outcome) ==
    /\ npc = "tasks"
    /\ Attached(notifyRet.via)
    /\ background_tasks # <<>>
    /\ posts' = SendNotification(Head(background_tasks), outcome)
    /\ background_tasks' = Tail(background_tasks)
    /\ UNCHANGED <<tgConfig, npc, notifyRet>>

\* the request is over: a list that is not attached is garbage
FinishRequest ==
    /\ npc = "tasks"
    /\ ~Attached(notifyRet.via) \/ background_tasks = <<>>
    /\ npc' = "idle"
    /\ background_tasks' = <<>>
    /\ UNCHANGED <<tgConfig, posts, notifyRet>>

\* TelegramBot(): the configuration is read from the environment
LoadConfig(enabled, configured) ==
    /\ npc = "idle"
    /\ tgConfig' = TelegramConfig(enabled, configured)
    /\ UNCHANGED <<npc, background_tasks, posts, notifyRet>>

\* telegram_bot = TelegramBot() with no environment set: enabled, no token
NotifyInit ==
    /\ tgConfig = TelegramConfig(TRUE, FALSE)
    /\ npc = "idle"
    /\ background_tasks = <<>>
    /\ posts = <<>>
    /\ notifyRet = NoNotifyRet

\* ------------------------------------------------------ @cached decorator
\* An argument value: its Python type and its text.
Arg(type, text) == [type |-> type, text |-> text]

\* what json.dumps writes for a value: a tuple and a list are both written
\* as an array, everything else explored keeps its type
JsonValue(v) ==
    IF v.type \in {"tuple", "list"} THEN Arg("array", v.text) ELSE v

\* the calls explored: positional arguments and keyword arguments
Call(args, kwargs) == [args |-> args, kwargs |-> kwargs]
NoArgs == Call(<<>>, {})
CallArgs ==
    {NoArgs,
     Call(<<Arg("str", "a"), Arg("str", "b")>>, {<<"kwarg1", Arg("str", "c")>>}),
     Call(<<Arg("str", "x"), Arg("str", "y")>>, {<<"kwarg1", Arg("str", "z")>>}),
     Call(<<Arg("tuple", "1, 2")>>, {}),
     Call(<<Arg("list", "1, 2")>>, {})}

\* json.dumps({'args': args, 'kwargs': sorted(kwargs.items())}, sort_keys=True)
JsonDumps(a) ==
    [args |-> [i \in DOMAIN a.args |-> JsonValue(a.args[i])],
     kwargs |-> {<<item[1], JsonValue(item[2])>> : item \in a.kwargs}]

\* _generate_key: the md5 digest of the JSON text, one digest per text
GenerateKey(a) == [md5 |-> JsonDumps(a)]

\* cache_key = f"{key_prefix}:{cache._generate_key(*args, **kwargs)}"
CacheKey(key_prefix, a) == [prefix |-> key_prefix, digest |-> GenerateKey(a)]

\* What a call returns: a value that depends on the function and on its
\* arguments, None, or (calling an async def) a new coroutine object.
Result(kind, of, a, id) == [kind |-> kind, of |-> of, args |-> a, id |-> id]
NoneValue == Result("none", None, NoArgs, 0)

\* the decorated functions explored: name, key_prefix, ttl, what they return
\*   test_function, other_function   @cached(ttl=3600), two functions
\*   prefixed                        @cached(ttl=3600, key_prefix="test_prefix")
\*   returns_none                    a function whose result is None
\*   predefined_topics               the async def behind GET /topics
Decorated(name, key_prefix, ttl, returns) ==
    [name |-> name, key_prefix |-> key_prefix, ttl |-> ttl, returns |-> returns]
TopicsTTL == 3600
PredefinedTopics == Decorated("predefined_topics", "topics", TopicsTTL, "coroutine")
DecoratedFunctions ==
    {Decorated("test_function", "", TopicsTTL, "value"),
     Decorated("other_function", "", TopicsTTL, "value"),
     Decorated("prefixed", "test_prefix", TopicsTTL, "value"),
     Decorated("returns_none", "none_prefix", TopicsTTL, "none"),
     PredefinedTopics}

\* func(*args, **kwargs), the n-th invocation of a decorated function
Invoke(fn, a, n) ==
    CASE fn.returns = "value" -> Result("value", fn.name, a, 0)
      [] fn.returns = "none" -> NoneValue
      [] fn.returns = "coroutine" -> Result("coroutine", fn.name, a, n)

\* cache.get(key): the value, None for a missing or an expired entry
GetValue(key) ==
    IF key \in DOMAIN cache /\ ~Expired(cache[key], now)
      THEN cache[key].value
      ELSE NoneValue

\* cache.get(key) deletes an expired entry
AfterGet(key) ==
    IF key \in DOMAIN cache /\ Expired(cache[key], now)
      THEN DictDel(cache, key)
      ELSE cache

\* the key the wrapper of @cached looks up and stores under
WrapperKey(fn, a) == CacheKey(fn.key_prefix, a)

NoMemoRet ==
    [n |-> 0, fn |-> None, args |-> NoArgs, result |-> NoneValue,
     invoked |-> FALSE, via |-> None, status |-> 0]

\* the wrapper of @cached: look the key up; on a result that is not None
\* return it, else call the function, store its result and return it
\* -- the cache, the invocation log and the returned result it leaves
Wrapper(fn, a, via, status) ==
    LET cache_key == WrapperKey(fn, a)
        cached_result == GetValue(cache_key)
        hit == cached_result # NoneValue
        result == IF hit THEN cached_result ELSE Invoke(fn, a, Len(invocations) + 1)
    IN /\ cache' =
              IF hit THEN cache
              ELSE DictPut(AfterGet(cache_key), cache_key,
                           [value |-> result,
                            expires_at |-> now + EffectiveTTL([given |-> TRUE, val |-> fn.ttl])])
       /\ invocations' =
              IF hit THEN invocations
              ELSE Append(invocations, [fn |-> fn.name, args |-> a, at |-> now])
       /\ memoRet' = [n |-> calls + 1, fn |-> fn.name, args |-> a, result |-> result,
                      invoked |-> ~hit, via |-> via, status |-> status]

\* a direct call of a decorated function, as in the tests
CachedCall(fn, a) ==
    /\ Wrapper(fn, a, "call", 0)
    /\ UNCHANGED <<dispatch, awaited>>

\* How the framework calls the route function, which is the plain-def wrapper
\* of an async def: either it sees a plain function, runs it in the thread
\* pool and serialises what it returned, or it looks through the wrapper,
\* sees the async def and awaits what the wrapper returned. Which of the two
\* depends on the framework version installed; it is fixed at the first call.
Dispatches == {"threadpool", "await"}

\* awaiting a coroutine object: its value the first time, RuntimeError after
AwaitStatus(result) == IF result.id \in awaited THEN 500 ELSE 200

\* GET /topics as the route function answers it
\*   threadpool: the coroutine object itself is the content to serialise,
\*               which fails: 500
\*   await:      200 with the payload when the coroutine is awaited first,
\*               500 (cannot reuse already awaited coroutine) afterwards
GetTopics(d) ==
    /\ dispatch \in {None, d}
    /\ dispatch' = d
    /\ \E status \in {200, 500} :
          /\ Wrapper(PredefinedTopics, NoArgs, "endpoint", status)
          /\ status = IF d = "threadpool" THEN 500 ELSE AwaitStatus(memoRet'.result)
    /\ awaited' = IF d = "await" THEN awaited \cup {memoRet'.result.id} ELSE awaited

MemoInit ==
    /\ invocations = <<>>
    /\ memoRet = NoMemoRet
    /\ dispatch = None
    /\ awaited = {}

\* ----------------------------------------------- @cache_invalidate decorator
\* Cache keys and patterns are strings, here sequences of characters.
\* the keys entries are stored under
StringKeys == {<<"a", "a">>, <<"a", "b">>, <<"b">>}

\* the patterns of the decorator: no pattern (None), or a string: the empty
\* one, parts of the keys, a whole key, and one that no key contains
NoPattern == [given |-> FALSE, text |-> <<>>]
PatternTexts == {<<>>, <<"a">>, <<"b">>, <<"a", "b">>, <<"b", "a">>}
Patterns == {NoPattern} \cup {[given |-> TRUE, text |-> p] : p \in PatternTexts}

\* pattern in key
InString(p, s) ==
    \E i \in 0..(Len(s) - Len(p)) : SubSeq(s, i + 1, i + Len(p)) = p

\* if pattern: neither None nor the empty string
Truthy(pattern) == pattern.given /\ pattern.text # <<>>

\* mutant: only the keys that start with the pattern
KeysToDeleteStartingWith(pattern) ==
    {key \in DOMAIN cache : Len(pattern.text) <= Len(key)
                            /\ SubSeq(key, 1, Len(pattern.text)) = pattern.text}

\* keys_to_delete = [key for key in cache._cache.keys() if pattern in key]
KeysToDelete(pattern) == {key \in DOMAIN cache : InString(pattern.text, key)}

\* how the wrapped function ends: it returns its result, or it raises
Endings == {"returns", "raises"}
InvalidatedResult == "invalidated"

NoInvRet ==
    [n |-> 0, pattern |-> NoPattern, ending |-> None, result |-> None, removed |-> 0]

\* the wrapper of @cache_invalidate: call the function; then delete the keys
\* that contain the pattern, or clear the cache when there is no pattern;
\* return the function's result. An exception of the function leaves at once.
CacheInvalidate(pattern, ending) ==
    /\ cache' =
          IF ending = "raises" THEN cache
          ELSE IF Truthy(pattern)
                 THEN [key \in (DOMAIN cache) \ KeysToDelete(pattern) |-> cache[key]]
                 ELSE EmptyDict
    /\ invRet' = [n |-> calls + 1, pattern |-> pattern, ending |-> ending,
                  result |-> IF ending = "returns" THEN InvalidatedResult ELSE None,
                  removed |-> Cardinality(DOMAIN cache) - Cardinality(DOMAIN cache')]

\* cache.set(key, value, ttl) on the string keys
StringSet(key, value, ttlArg) ==
    /\ cache' = DictPut(cache, key,
                        [value |-> value, expires_at |-> now + EffectiveTTL(ttlArg)])
    /\ UNCHANGED invRet

InvInit == invRet = NoInvRet

\* ------------------------------------- is_allowed called from several threads
\* RateLimiter takes no lock. A thread that runs is_allowed can be suspended
\* between any two of its statements; the steps below are the reads and the
\* writes of the shared lists, one step each:
\*   clean_minute_read   the list comprehension over minute_requests[client_id]
\*   clean_minute_write  minute_requests[client_id] = <the filtered list>
\*   clean_hour_read, clean_hour_write   the same for hour_requests
\*   count               minute_count, hour_count = len(...), len(...)
\*   append_minute       minute_requests[client_id].append(current_time)
\*   append_hour         hour_requests[client_id].append(current_time)
Threads == {"t1", "t2"}

Idle ==
    [pc |-> "idle", client_id |-> None, current_time |-> 0, filtered |-> <<>>,
     minute_count |-> 0, hour_count |-> 0]

\* the thread's locals with some of them changed
At(th, pc) == [th EXCEPT !.pc = pc]

\* is_allowed is entered: current_time = time.time()
EnterIsAllowed(t, client_id) ==
    /\ threads[t].pc = "idle"
    /\ threads' = [threads EXCEPT ![t] =
                      [Idle EXCEPT !.pc = "clean_minute_read", !.client_id = client_id,
                                   !.current_time = now]]
    /\ UNCHANGED <<minute_requests, hour_requests, allowedLog, finished>>

\* one statement of is_allowed run by thread t
ThreadStep(t) ==
    LET th == threads[t]
        c == th.client_id
        allowed == MinuteAllowed(th.minute_count) /\ HourAllowed(th.hour_count)
    IN /\ th.pc # "idle"
       /\ CASE th.pc = "clean_minute_read" ->
                 /\ threads' = [threads EXCEPT ![t] =
                       [th EXCEPT !.pc = "clean_minute_write",
                                  !.filtered = CleanMinute(c, th.current_time)]]
                 /\ UNCHANGED <<minute_requests, hour_requests, allowedLog, finished>>
            [] th.pc = "clean_minute_write" ->
                 /\ minute_requests' = [minute_requests EXCEPT ![c] = th.filtered]
                 /\ threads' = [threads EXCEPT ![t] = At(th, "clean_hour_read")]
                 /\ UNCHANGED <<hour_requests, allowedLog, finished>>
            [] th.pc = "clean_hour_read" ->
                 /\ threads' = [threads EXCEPT ![t] =
                       [th EXCEPT !.pc = "clean_hour_write",
                                  !.filtered = CleanHour(c, th.current_time)]]
                 /\ UNCHANGED <<minute_requests, hour_requests, allowedLog, finished>>
            [] th.pc = "clean_hour_write" ->
                 /\ hour_requests' = [hour_requests EXCEPT ![c] = th.filtered]
                 /\ threads' = [threads EXCEPT ![t] = At(th, "count")]
                 /\ UNCHANGED <<minute_requests, allowedLog, finished>>
            [] th.pc = "count" ->
                 /\ threads' = [threads EXCEPT ![t] =
                       [th EXCEPT !.pc = "check",
                                  !.minute_count = Len(minute_requests[c]),
                                  !.hour_count = Len(hour_requests[c])]]
                 /\ UNCHANGED <<minute_requests, hour_requests, allowedLog, finished>>
            [] th.pc = "check" ->
                 /\ threads' = [threads EXCEPT ![t] =
                       IF allowed THEN At(th, "append_minute") ELSE Idle]
                 /\ finished' = IF allowed THEN finished ELSE finished + 1
                 /\ UNCHANGED <<minute_requests, hour_requests, allowedLog>>
            [] th.pc = "append_minute" ->
                 /\ minute_requests' =
                       [minute_requests EXCEPT ![c] = MinuteAfter(@, TRUE, th.current_time)]
                 /\ threads' = [threads EXCEPT ![t] = At(th, "append_hour")]
                 /\ UNCHANGED <<hour_requests, allowedLog, finished>>
            [] th.pc = "append_hour" ->
                 /\ hour_requests' =
                       [hour_requests EXCEPT ![c] = HourAfter(@, TRUE, th.current_time)]
                 /\ allowedLog' = [allowedLog EXCEPT ![c] = Append(@, th.current_time)]
                 /\ threads' = [threads EXCEPT ![t] = Idle]
                 /\ finished' = finished + 1
                 /\ UNCHANGED minute_requests

RaceInit ==
    /\ threads = [t \in Threads |-> Idle]
    /\ finished = 0

\* ------------------------------------------- the middleware stack of the app
\* the middleware main.py puts on the application: setup_security_middleware
\* (three classes and one function), rate_limit_middleware, and
\* catch_exceptions_and_log
RegisteredMiddleware ==
    {"CORSMiddleware", "TrustedHostMiddleware", "GZipMiddleware",
     "add_security_headers", "rate_limit_middleware", "catch_exceptions_and_log"}

\* MonitoringMiddleware: on http.response.start it calls
\* metrics_collector.record_request with the path and method of the scope,
\* the status of the message and the client host 'unknown'. It acts on the
\* requests of an application it has been registered on.
MonitoringMiddleware(path, status, response_time) ==
    IF "MonitoringMiddleware" \in RegisteredMiddleware
      THEN RecordRequest(RequestMetrics(path, "GET", status, response_time, "unknown"))
      ELSE UNCHANGED metricsVars

\* one request served by the application: the stack of main.py around the
\* route, GET /metrics among the routes
ServeRequest(request) ==
    /\ RateLimitMiddleware(request)
    /\ MonitoringMiddleware(request.path, response'.status, 1)

\* --------------------------------------- MemoryCache used by several threads
\* MemoryCache takes no lock. Each operation on the dict is one step; a thread
\* inside get can be suspended between any two of its statements:
\*   EnterGet       if key not in self._cache: return None
\*   get_read       cache_entry = self._cache[key]     (KeyError if gone)
\*   get_expired    if time.time() > cache_entry['expires_at']:
\*   get_del        del self._cache[key]; return None  (KeyError if gone)
\* set computes the entry and stores it with one assignment into the dict.
NoEntry == [value |-> None, expires_at |-> 0]

\* what a call returned to its thread: the value, or the exception it raised;
\* interleaved tells whether another thread acted on the cache during the call
NoWorkerRet ==
    [op |-> None, key |-> None, value |-> None, raised |-> None, interleaved |-> FALSE]

WorkerRet(op, key, value, raised, interleaved) ==
    [op |-> op, key |-> key, value |-> value, raised |-> raised,
     interleaved |-> interleaved]

IdleWorker ==
    [pc |-> "idle", key |-> None, cache_entry |-> NoEntry, interleaved |-> FALSE,
     ret |-> NoWorkerRet]

\* the value thread t stores: f"value_{thread_id}_{i}"
WorkerValue(t) == IF t = "t1" THEN "v1" ELSE "v2"

\* the thread is back in its caller with this outcome of get
GetReturned(w, value, raised) ==
    [IdleWorker EXCEPT !.ret = WorkerRet("get", w.key, value, raised, w.interleaved)]

\* thread t has acted on the cache: the threads inside get have been interleaved
Interleave(t, w) ==
    [u \in Threads |->
        IF u = t THEN w
        ELSE IF workers[u].pc # "idle" THEN [workers[u] EXCEPT !.interleaved = TRUE]
        ELSE workers[u]]

\* thread t calls cache.set(key, value, ttl)
WorkerSet(t, key, value, ttlArg) ==
    /\ workers[t].pc = "idle"
    /\ CacheSet(key, value, ttlArg)
    /\ workers' = Interleave(t, [IdleWorker EXCEPT
                                    !.ret = WorkerRet("set", key, None, None, FALSE)])
    /\ touched' = [touched EXCEPT ![key] = @ \cup {t}]

\* thread t calls cache.get(key): the membership test
EnterGet(t, key) ==
    LET w == [IdleWorker EXCEPT !.key = key, !.ret = workers[t].ret]
    IN /\ workers[t].pc = "idle"
       /\ workers' = Interleave(t,
             IF key \notin DOMAIN cache
               THEN GetReturned(w, None, None)
               ELSE [w EXCEPT !.pc = "get_read"])
       /\ touched' = [touched EXCEPT ![key] = @ \cup {t}]
       /\ UNCHANGED cacheVars

\* one statement of get run by thread t
WorkerStep(t) ==
    LET w == workers[t]
    IN /\ w.pc # "idle"
       /\ CASE w.pc = "get_read" ->
                 /\ workers' = Interleave(t,
                       IF w.key \in DOMAIN cache
                         THEN [w EXCEPT !.pc = "get_expired", !.cache_entry = cache[w.key]]
                         ELSE GetReturned(w, None, "KeyError"))
                 /\ cache' = cache
            [] w.pc = "get_expired" ->
                 /\ workers' = Interleave(t,
                       IF Expired(w.cache_entry, now)
                         THEN [w EXCEPT !.pc = "get_del"]
                         ELSE GetReturned(w, w.cache_entry.value, None))
                 /\ cache' = cache
            [] w.pc = "get_del" ->
                 /\ workers' = Interleave(t,
                       IF w.key \in DOMAIN cache
                         THEN GetReturned(w, None, None)
                         ELSE GetReturned(w, None, "KeyError"))
                 /\ cache' = IF w.key \in DOMAIN cache THEN DictDel(cache, w.key) ELSE cache
       /\ UNCHANGED <<cacheRet, lastSet, touched>>

WorkerInit ==
    /\ workers = [t \in Threads |-> IdleWorker]
    /\ touched = [k \in Keys |-> {}]

ClockInit ==
    /\ now = 0
    /\ ticks = 0

\* ------------------------------------------------------- specifications
Init ==
    /\ ClockInit
    /\ CacheInit
    /\ RlInit
    /\ GenInit
    /\ ApiInit
    /\ PwInit
    /\ AuthInit
    /\ HealthInit
    /\ MetricsInit
    /\ NotifyInit
    /\ MemoInit
    /\ InvInit
    /\ RaceInit
    /\ WorkerInit

\* the clock steps explored around the cache: one second, and just inside
\* and onto the edge of the default time-to-live
CacheClockSteps == {1, DefaultTTL - 1, DefaultTTL}

CacheTick == \E d \in CacheClockSteps : Tick(d) /\ UNCHANGED <<cacheVars, rlVars, calls, genVars, extVars>>
DoCacheGet == \E k \in Keys : CacheGet(k) /\ UNCHANGED <<clockVars, rlVars, calls, genVars, extVars>>
DoCacheSet ==
    \E k \in Keys, v \in Values, a \in TTLArgs : CacheSet(k, v, a) /\ UNCHANGED <<clockVars, rlVars, calls, genVars, extVars>>
DoCacheDelete == \E k \in Keys : CacheDelete(k) /\ UNCHANGED <<clockVars, rlVars, calls, genVars, extVars>>
DoCacheClear == CacheClear /\ UNCHANGED <<clockVars, rlVars, calls, genVars, extVars>>

CacheNext ==
    \/ CacheTick
    \/ DoCacheGet
    \/ DoCacheSet
    \/ DoCacheDelete
    \/ DoCacheClear

SpecCache == Init /\ [][CacheNext]_vars

\* the clock steps explored around the rate limiter: just inside and onto
\* the edge of the minute window, and the same for the hour window
\* (59 + 3540 = 3599)
RlClockSteps ==
    {MinuteWindow - 1, MinuteWindow, HourWindow - MinuteWindow, HourWindow}

RlTick == \E d \in RlClockSteps : Tick(d) /\ UNCHANGED <<cacheVars, rlVars, calls, genVars, extVars>>
\* one more call within the explored number of calls
CountCall ==
    /\ calls < MaxCalls
    /\ calls' = calls + 1

DoIsAllowed ==
    \E c \in Clients :
        CountCall /\ IsAllowed(c) /\ UNCHANGED <<clockVars, cacheVars, response, genVars, extVars>>

RlNext ==
    \/ RlTick
    \/ DoIsAllowed

SpecRL == Init /\ [][RlNext]_vars

\* the clock steps explored around the middleware
HttpClockSteps == {MinuteWindow - 1, MinuteWindow}

HttpTick == \E d \in HttpClockSteps : Tick(d) /\ UNCHANGED <<cacheVars, rlVars, calls, genVars, extVars>>
DoHttpRequest ==
    \E r \in Requests :
        CountCall /\ RateLimitMiddleware(r) /\ UNCHANGED <<clockVars, cacheVars, genVars, extVars>>

HttpNext ==
    \/ HttpTick
    \/ DoHttpRequest

SpecHttp == Init /\ [][HttpNext]_vars

otherVars == <<clockVars, calls, cacheVars, rlVars, extVars>>

DoGenCall == \E i \in Invocations : GenCall(i.caller, i.topic) /\ UNCHANGED otherVars
DoGenAttempt == \E a \in Answers : GenAttempt(a) /\ UNCHANGED otherVars
DoGenSleep == GenSleep /\ UNCHANGED otherVars
DoGeneratePostFinish == GeneratePostFinish /\ UNCHANGED otherVars

GenNext ==
    \/ DoGenCall
    \/ DoGenAttempt
    \/ DoGenSleep
    \/ DoGeneratePostFinish

SpecGen == Init /\ [][GenNext]_vars

\* The retry loop on its own: the provider's answers are the three failures
\* and the bodies of at most one symbol.
RetryAnswers ==
    {Failure("Timeout"), Failure("RequestException"), Failure("Exception")}
        \cup {a \in FreeAnswers : Len(a.text) <= 1}

DoRetryAttempt == \E a \in RetryAnswers : GenAttempt(a) /\ UNCHANGED otherVars

RetryNext ==
    \/ DoGenCall
    \/ DoRetryAttempt
    \/ DoGenSleep
    \/ DoGeneratePostFinish

\* Every attempt ends (requests.post is given timeout=self.timeout), every
\* pause ends, and generate_post goes on once the call has returned.
FairSpecRetry ==
    /\ Init
    /\ [][RetryNext]_vars
    /\ WF_vars(DoRetryAttempt)
    /\ WF_vars(DoGenSleep)
    /\ WF_vars(DoGeneratePostFinish)

\* ---- POST /generate
DoGenerateRequest ==
    \E r \in GenerateRequests :
        /\ CountCall
        /\ GenerateExchange(r)
        /\ UNCHANGED <<clockVars, cacheVars, genVars, pwVars, authVars, healthVars, moreVars>>

DoGenerateEndpoint ==
    \E r \in GenerateRequests :
        /\ GenerateDirect(r)
        /\ UNCHANGED <<clockVars, calls, cacheVars, rlVars, genVars, pwVars, authVars,
                       healthVars, moreVars>>

ApiNext ==
    \/ DoGenerateRequest
    \/ DoGenerateEndpoint

SpecApi == Init /\ [][ApiNext]_vars

\* ---- password hashing
DoHashAndVerify ==
    \E p \in PasswordInputs, q \in PasswordInputs, salt \in Salts :
        /\ HashAndVerify(p, q, salt)
        /\ UNCHANGED <<clockVars, calls, cacheVars, rlVars, genVars, apiVars, authVars,
                       healthVars, moreVars>>

PwNext == DoHashAndVerify

SpecPw == Init /\ [][PwNext]_vars

\* ---- AuthService: login, register, change_password
authOthers == <<cacheVars, rlVars, genVars, apiVars, pwVars, healthVars, moreVars>>

NewEmail == "new@example.com"
NewName == "New User"

CountAuthCall ==
    /\ calls < MaxAuthCalls
    /\ calls' = calls + 1

DoLogin ==
    \E u \in Usernames, p \in Passwords :
        CountAuthCall /\ Login(u, p) /\ UNCHANGED <<clockVars, authOthers>>
DoRegister ==
    \E u \in Usernames, p \in Passwords, salt \in Salts :
        CountAuthCall /\ Register(u, NewEmail, p, NewName, salt)
                      /\ UNCHANGED <<clockVars, authOthers>>
DoChangePassword ==
    \E u \in Usernames, old \in Passwords, new \in Passwords, salt \in Salts :
        CountAuthCall /\ ChangePassword(u, old, new, salt)
                      /\ UNCHANGED <<clockVars, authOthers>>

AuthNext ==
    \/ DoLogin
    \/ DoRegister
    \/ DoChangePassword

SpecAuth == Init /\ [][AuthNext]_vars

\* ---- tokens: issue, verification, the admin endpoints, over time
\* the clock steps explored around a token: the two lifetimes, the shorter
\* being half the longer, so that a token is seen inside its lifetime, at
\* its expiry and past it
TokenClockSteps == {DefaultTokenSeconds, TokenSeconds}

\* the tokens a caller can present: the ones in circulation, and forgeries
\* of them signed with another key
Presented == issued \cup {[t EXCEPT !.sig = ForgedKey] : t \in issued}

\* the subjects create_access_token is called with on its own: none, and a
\* username that is in no table
DirectSubjects == {None, "ghost"}

\* the logins explored while tokens are in circulation: right and wrong
\* passwords, known and unknown usernames
TokenLogins ==
    {[username |-> "admin", password |-> AdminPassword],
     [username |-> "user", password |-> UserPassword],
     [username |-> "user", password |-> AdminPassword],
     [username |-> "bob", password |-> UserPassword]}

\* the admin requests explored: the list, and disable/enable of each username
AdminCalls ==
    {[op |-> "get_users", username |-> None]}
        \cup [op : {"disable_user", "enable_user"}, username : {"admin", "user"}]
        \cup {[op |-> "disable_user", username |-> "nobody"]}

CountTokenCall ==
    /\ calls < MaxTokenCalls
    /\ calls' = calls + 1

TokenTick == \E d \in TokenClockSteps : Tick(d) /\ UNCHANGED <<calls, authVars, authOthers>>
DoTokenLogin ==
    \E l \in TokenLogins :
        CountTokenCall /\ Login(l.username, l.password)
                       /\ UNCHANGED <<clockVars, authOthers>>
DoCreateToken ==
    \E sub \in DirectSubjects :
        CountTokenCall /\ CreateToken(sub) /\ UNCHANGED <<clockVars, authOthers>>
DoTokenRegister ==
    \E u \in {"admin", "bob"} :
        CountTokenCall /\ Register(u, NewEmail, UserPassword, NewName, "salt2")
                       /\ UNCHANGED <<clockVars, authOthers>>
DoTokenChangePassword ==
    \E u \in {"admin", "user"} :
        CountTokenCall /\ ChangePassword(u, passwords[u], LongPasswordA, "salt2")
                       /\ UNCHANGED <<clockVars, authOthers>>
DoVerifyToken ==
    \E t \in Presented :
        CountTokenCall /\ VerifyToken(t) /\ UNCHANGED <<clockVars, authOthers>>
DoGetCurrentUserInfo ==
    \E t \in Presented :
        CountTokenCall /\ GetCurrentUserInfo(t) /\ UNCHANGED <<clockVars, authOthers>>
DoAdminEndpoint ==
    \E call \in AdminCalls, t \in Presented :
        CountTokenCall /\ AdminEndpoint(call.op, t, call.username)
                       /\ UNCHANGED <<clockVars, authOthers>>

TokenNext ==
    \/ TokenTick
    \/ DoTokenLogin
    \/ DoCreateToken
    \/ DoTokenRegister
    \/ DoTokenChangePassword
    \/ DoVerifyToken
    \/ DoGetCurrentUserInfo
    \/ DoAdminEndpoint

SpecToken == Init /\ [][TokenNext]_vars

\* ---- the account API with no bound on the number of calls: login,
\* register, change-password and the admin endpoints, called over and over at
\* one instant (no token expires)
adminOthers == <<clockVars, calls, authOthers>>

DoApiLogin ==
    \E l \in TokenLogins : Login(l.username, l.password) /\ UNCHANGED adminOthers
DoApiRegister ==
    \E u \in {"admin", "bob"} :
        Register(u, NewEmail, UserPassword, NewName, "salt2") /\ UNCHANGED adminOthers
DoApiChangePassword ==
    \E u \in {"admin", "user"} :
        ChangePassword(u, passwords[u], LongPasswordA, "salt2") /\ UNCHANGED adminOthers
DoApiAdminEndpoint ==
    \E call \in AdminCalls, t \in Presented :
        AdminEndpoint(call.op, t, call.username) /\ UNCHANGED adminOthers

\* POST /admin/users/admin/enable is called and its handler is reached
ReEnableAdmin ==
    \E t \in Presented :
        /\ AdminEndpoint("enable_user", t, "admin")
        /\ authRet'.ok
        /\ UNCHANGED adminOthers

AdminNext ==
    \/ DoApiLogin
    \/ DoApiRegister
    \/ DoApiChangePassword
    \/ DoApiAdminEndpoint

\* Whoever wants the admin account back keeps sending the enable call: if that
\* call can succeed again and again, it is eventually made.
FairSpecAdmin ==
    /\ Init
    /\ [][AdminNext]_vars
    /\ SF_vars(ReEnableAdmin)

\* ---- the application serving requests, with its metrics
serveOthers == <<cacheVars, genVars, apiVars, pwVars, authVars, healthVars,
                 notifyVars, memoVars, invVars, raceVars, workerVars>>

\* the requests explored: a bypass path, an ordinary route and GET /metrics
ServedRequests ==
    [path : {"/", "/topics", "/metrics"}, fwd : {<<>>}, real : {None},
     peer : {None, "c1"}]

ServeTick == \E d \in HttpClockSteps : Tick(d) /\ UNCHANGED <<calls, rlVars, metricsVars, serveOthers>>
DoServeRequest ==
    \E r \in ServedRequests :
        CountCall /\ ServeRequest(r) /\ UNCHANGED <<clockVars, serveOthers>>

ServeNext ==
    \/ ServeTick
    \/ DoServeRequest

SpecServe == Init /\ [][ServeNext]_vars

\* ---- HealthChecker
healthOthers == <<cacheVars, rlVars, genVars, apiVars, pwVars, authVars, moreVars>>

\* the clock steps explored around the probes: just inside and onto the
\* shortest interval, and up to the longest one
HealthClockSteps ==
    {DatabaseInterval - 1, DatabaseInterval, DiskSpaceInterval - DatabaseInterval}

CountHealthCall ==
    /\ calls < MaxHealthCalls
    /\ calls' = calls + 1

HealthTick == \E d \in HealthClockSteps : Tick(d) /\ UNCHANGED <<calls, healthVars, healthOthers>>
DoAddCheck ==
    \E name \in AddedNames, interval \in AddedIntervals :
        CountHealthCall /\ AddCheck(name, "added_probe", interval)
                  /\ UNCHANGED <<clockVars, healthOthers>>
\* the probes the next check_health call runs
DueNow == {name \in DOMAIN checks : Due(name, StartTime + now)}

DoCheckHealth ==
    \E outcome \in [DueNow -> ProbeOutcomes] :
        CountHealthCall /\ CheckHealth(outcome) /\ UNCHANGED <<clockVars, healthOthers>>

HealthNext ==
    \/ HealthTick
    \/ DoAddCheck
    \/ DoCheckHealth

SpecHealth == Init /\ [][HealthNext]_vars

metricsOthers == <<coreVars, notifyVars, memoVars, invVars, raceVars, workerVars>>

\* the capacities explored
Capacities == 0..MaxHistory

CountMetricsCall ==
    /\ calls < MaxRecords
    /\ calls' = calls + 1

MetricsTick == Tick(1) /\ UNCHANGED <<calls, metricsVars, metricsOthers>>
DoNewCollector ==
    \E capacity \in Capacities :
        /\ recorded = <<>>
        /\ max_history = DefaultMaxHistory
        /\ NewCollector(capacity)
        /\ UNCHANGED <<clockVars, calls, metricsOthers>>
DoRecordRequest ==
    \E sample \in MetricSamples :
        CountMetricsCall /\ RecordRequest(sample) /\ UNCHANGED <<clockVars, metricsOthers>>

MetricsNext ==
    \/ MetricsTick
    \/ DoNewCollector
    \/ DoRecordRequest

SpecMetrics == Init /\ [][MetricsNext]_vars

notifyOthers == <<clockVars, coreVars, metricsVars, memoVars, invVars, raceVars, workerVars>>

CountNotifyCall ==
    /\ calls < MaxNotifyCalls
    /\ calls' = calls + 1

DoLoadConfig ==
    \E enabled \in BOOLEAN, configured \in BOOLEAN :
        /\ tgConfig # TelegramConfig(enabled, configured)
        /\ LoadConfig(enabled, configured)
        /\ UNCHANGED <<calls, notifyOthers>>
DoHandleRequest ==
    \E via \in Callers :
        CountNotifyCall /\ HandleRequest(via) /\ UNCHANGED notifyOthers
DoSendResponse == SendResponse /\ UNCHANGED <<calls, notifyOthers>>
DoRunTask ==
    \E outcome \in PostOutcomes : RunTask(outcome) /\ UNCHANGED <<calls, notifyOthers>>
DoFinishRequest == FinishRequest /\ UNCHANGED <<calls, notifyOthers>>

NotifyNext ==
    \/ DoLoadConfig
    \/ DoHandleRequest
    \/ DoSendResponse
    \/ DoRunTask
    \/ DoFinishRequest

SpecNotify == Init /\ [][NotifyNext]_vars

memoOthers == <<rlVars, genVars, apiVars, pwVars, authVars, healthVars, metricsVars,
                notifyVars, invVars, raceVars, workerVars>>

\* the clock steps explored around @cached: one second, and onto and past
\* the edge of the time-to-live
MemoClockSteps == {1, TopicsTTL - 1}

CountMemoCall ==
    /\ calls < MaxMemoCalls
    /\ calls' = calls + 1

MemoTick ==
    \E d \in MemoClockSteps :
        Tick(d) /\ UNCHANGED <<calls, cacheVars, memoVars, memoOthers>>
\* the direct calls explored: test_function with every argument list, the
\* other functions with one
DirectCalls ==
    {c \in [fn : DecoratedFunctions \ {PredefinedTopics}, a : CallArgs \ {NoArgs}] :
        c.fn.name # "test_function" => c.a.args = <<Arg("str", "a"), Arg("str", "b")>>}

DoCachedCall ==
    \E c \in DirectCalls :
        CountMemoCall /\ CachedCall(c.fn, c.a)
                      /\ UNCHANGED <<clockVars, cacheRet, lastSet, memoOthers>>
DoGetTopics ==
    \E d \in Dispatches :
        CountMemoCall /\ GetTopics(d)
                      /\ UNCHANGED <<clockVars, cacheRet, lastSet, memoOthers>>

MemoNext ==
    \/ MemoTick
    \/ DoCachedCall
    \/ DoGetTopics

SpecMemo == Init /\ [][MemoNext]_vars

invOthers == <<rlVars, genVars, apiVars, pwVars, authVars, healthVars, metricsVars,
               notifyVars, memoVars, raceVars, workerVars>>

\* the ttl the entries are set with: the default, or one second
StringTTLArgs == {[given |-> FALSE, val |-> 0], [given |-> TRUE, val |-> 1]}

CountInvCall ==
    /\ calls < MaxInvCalls
    /\ calls' = calls + 1

DoStringSet ==
    \E key \in StringKeys, value \in Values, ttlArg \in StringTTLArgs :
        CountInvCall /\ StringSet(key, value, ttlArg)
                     /\ UNCHANGED <<clockVars, cacheRet, lastSet, invOthers>>
DoCacheInvalidate ==
    \E pattern \in Patterns, ending \in Endings :
        CountInvCall /\ CacheInvalidate(pattern, ending)
                     /\ UNCHANGED <<clockVars, cacheRet, lastSet, invOthers>>

InvNext ==
    \/ DoStringSet
    \/ DoCacheInvalidate

SpecInvalidate == Init /\ [][InvNext]_vars

raceOthers == <<cacheVars, rlCall, response, genVars, apiVars, pwVars, authVars,
                healthVars, metricsVars, notifyVars, memoVars, invVars, workerVars>>

CountRaceCall ==
    /\ calls < MaxRaceCalls
    /\ calls' = calls + 1

DoEnterIsAllowed ==
    \E t \in Threads, c \in Clients :
        CountRaceCall /\ EnterIsAllowed(t, c) /\ UNCHANGED <<clockVars, raceOthers>>
DoThreadStep ==
    \E t \in Threads : ThreadStep(t) /\ UNCHANGED <<clockVars, calls, raceOthers>>

RaceNext ==
    \/ DoEnterIsAllowed
    \/ DoThreadStep

SpecRace == Init /\ [][RaceNext]_vars

\* ---- threads using the cache
workerOthers == <<rlVars, genVars, apiVars, pwVars, authVars, healthVars,
                  metricsVars, notifyVars, memoVars, invVars, raceVars>>

\* the ttl arguments the threads pass: omitted, and one second
WorkerTTLArgs == {[given |-> FALSE, val |-> 0], [given |-> TRUE, val |-> 1]}

\* the clock step explored: past the one-second ttl
WorkerClockSteps == {2}

CountWorkerCall ==
    /\ calls < MaxWorkerCalls
    /\ calls' = calls + 1

WorkerTick ==
    \E d \in WorkerClockSteps :
        Tick(d) /\ UNCHANGED <<calls, cacheVars, workerVars, workerOthers>>
DoWorkerSet ==
    \E t \in Threads, k \in Keys, a \in WorkerTTLArgs :
        CountWorkerCall /\ WorkerSet(t, k, WorkerValue(t), a) /\ UNCHANGED <<clockVars, workerOthers>>
DoEnterGet ==
    \E t \in Threads, k \in Keys :
        CountWorkerCall /\ EnterGet(t, k) /\ UNCHANGED <<clockVars, workerOthers>>
DoWorkerStep ==
    \E t \in Threads : WorkerStep(t) /\ UNCHANGED <<clockVars, calls, workerOthers>>

WorkerNext ==
    \/ WorkerTick
    \/ DoWorkerSet
    \/ DoEnterGet
    \/ DoWorkerStep

SpecWorkers == Init /\ [][WorkerNext]_vars

Next ==
    \/ CacheNext
    \/ RlNext
    \/ HttpNext
    \/ GenNext
    \/ ApiNext
    \/ PwNext
    \/ AuthNext
    \/ TokenNext
    \/ AdminNext
    \/ ServeNext
    \/ HealthNext
    \/ MetricsNext
    \/ NotifyNext
    \/ MemoNext
    \/ InvNext
    \/ RaceNext
    \/ WorkerNext

Spec == Init /\ [][Next]_vars

\* ------------------------------------------------------------- claims

\* the time-to-live a set asked for: the explicit argument, else the default
RequestedTTL(s) == IF s.given THEN s.ttl ELSE DefaultTTL

\* C1: for every key, after set(key, v) with time-to-live t at time T and no
\* later set/delete/clear of that key, a get before T + t returns v and a get
\* after T + t returns None.
C1_GetHonoursRequestedTTL ==
    (cacheRet.op = "get" /\ lastSet[cacheRet.key] # NoSet) =>
        LET s == lastSet[cacheRet.key]
            expiry == s.at + RequestedTTL(s)
        IN /\ (cacheRet.at < expiry => cacheRet.value = s.value)
           /\ (cacheRet.at > expiry => cacheRet.value = None)
\* --- rate limiter: what the history of allowed requests says ---

\* the allowed timestamps of the client of the last call, before that call
PriorAllowed ==
    LET log == allowedLog[rlCall.client]
    IN IF rlCall.allowed THEN SubSeq(log, 1, Len(log) - 1) ELSE log

\* how many of the timestamps of log lie in the window of length w ending at t
CountIn(log, t, w) ==
    Cardinality({i \in 1..Len(log) : t - log[i] < w /\ log[i] <= t})

\* the last n allowed requests before the last call all lie inside the
\* window of length w that ends at the call
FilledWindow(n, w) ==
    /\ Len(PriorAllowed) >= n
    /\ rlCall.at - PriorAllowed[Len(PriorAllowed) - n + 1] < w

\* the last n allowed requests before the last call lay inside one window of
\* length w, and that window has elapsed since the last of them
ElapsedWindow(n, w) ==
    LET k == Len(PriorAllowed)
    IN /\ k >= n
       /\ PriorAllowed[k] - PriorAllowed[k - n + 1] < w
       /\ rlCall.at - PriorAllowed[k] >= w

\* after N allowed requests inside a window the next one inside it is denied
DeniedInsideWindow ==
    /\ FilledWindow(RequestsPerMinute, MinuteWindow) => ~rlCall.allowed
    /\ FilledWindow(RequestsPerHour, HourWindow) => ~rlCall.allowed

\* C2 as stated: after exactly N allowed requests inside a window the next
\* request inside that window is denied, and once the window has elapsed since
\* those requests the next request is allowed, for the minute window and for
\* the hour window alike.
C2_AllowedAgainAfterEitherWindow ==
    rlCall.client # None =>
        /\ DeniedInsideWindow
        /\ ElapsedWindow(RequestsPerMinute, MinuteWindow) => rlCall.allowed
        /\ ElapsedWindow(RequestsPerHour, HourWindow) => rlCall.allowed

\* C2 amended: after exactly N allowed requests inside a window the next
\* request inside that window is denied; once the hour window has elapsed the
\* next request is allowed, and once the minute window has elapsed the next
\* request is allowed provided fewer than requests_per_hour requests were
\* allowed in the trailing hour.
C2_AllowedAgainUnlessHourFull ==
    rlCall.client # None =>
        /\ DeniedInsideWindow
        /\ (/\ ElapsedWindow(RequestsPerMinute, MinuteWindow)
            /\ CountIn(PriorAllowed, rlCall.at, HourWindow) < RequestsPerHour)
               => rlCall.allowed
        /\ ElapsedWindow(RequestsPerHour, HourWindow) => rlCall.allowed

\* a request is let through after a full minute window has elapsed, with an
\* earlier request of the same client still inside the hour window
C2_Witness_AllowedAfterMinute ==
    /\ rlCall.client # None
    /\ ElapsedWindow(RequestsPerMinute, MinuteWindow)
    /\ rlCall.allowed
    /\ rlCall.hour_count > 0

\* C3: for every client and every instant, at most requests_per_minute
\* requests were allowed in the trailing 60 seconds and at most
\* requests_per_hour in the trailing 3600 seconds; the counts the last decision
\* used are the numbers of requests allowed inside each trailing window, and
\* the lists it counted hold no timestamp as old as the window length.
\* (A trailing count is largest at an instant where a request was allowed, so
\* the instants checked are the allowed timestamps and the current time.)
C3_SlidingWindowInvariant ==
    /\ \A c \in Clients :
          \A t \in {allowedLog[c][i] : i \in 1..Len(allowedLog[c])} \cup {now} :
              /\ CountIn(allowedLog[c], t, MinuteWindow) <= RequestsPerMinute
              /\ CountIn(allowedLog[c], t, HourWindow) <= RequestsPerHour
    /\ rlCall.client # None =>
          /\ rlCall.minute_count = CountIn(PriorAllowed, rlCall.at, MinuteWindow)
          /\ rlCall.hour_count = CountIn(PriorAllowed, rlCall.at, HourWindow)
          /\ \A i \in 1..Len(minute_requests[rlCall.client]) :
                rlCall.at - minute_requests[rlCall.client][i] < MinuteWindow
          /\ \A i \in 1..Len(hour_requests[rlCall.client]) :
                rlCall.at - hour_requests[rlCall.client][i] < HourWindow

\* a decision was taken after timestamps had aged out of both windows
C3_Witness_PrunedBothWindows ==
    /\ rlCall.client # None
    /\ Len(PriorAllowed) > rlCall.hour_count
    /\ rlCall.hour_count > rlCall.minute_count
    /\ rlCall.minute_count > 0

\* C4: is_allowed records the current timestamp only when both checks pass,
\* and then in both lists; a denied call leaves both lists as they were apart
\* from dropping the timestamps that have left the window; other clients'
\* lists are untouched.
C4_RecordsOnlyWhenBothPass ==
    [][calls' # calls =>
        LET c == rlCall'.client
            m == SelectSeq(minute_requests[c], LAMBDA r : now - r < MinuteWindow)
            h == SelectSeq(hour_requests[c], LAMBDA r : now - r < HourWindow)
            both == Len(m) < RequestsPerMinute /\ Len(h) < RequestsPerHour
        IN /\ rlCall'.allowed = both
           /\ both => /\ minute_requests'[c] = Append(m, now)
                      /\ hour_requests'[c] = Append(h, now)
           /\ ~both => /\ minute_requests'[c] = m
                       /\ hour_requests'[c] = h
           /\ \A o \in Clients \ {c} :
                 /\ minute_requests'[o] = minute_requests[o]
                 /\ hour_requests'[o] = hour_requests[o]]_vars

\* a call was denied by the hour check alone, with the minute check passing
C4_Witness_DeniedByHourOnly ==
    /\ rlCall.client # None
    /\ ~rlCall.allowed
    /\ rlCall.minute_count < RequestsPerMinute
    /\ rlCall.hour_count = RequestsPerHour
    /\ Len(minute_requests[rlCall.client]) = rlCall.minute_count

\* --- middleware ---

\* the paths the claim exempts: health, docs and static
ExemptPaths == {"/", "/health", "/docs", "/openapi.json", "/favicon.ico", "/static/style.css"}

\* C5: a request to a health, docs or static path is never put to the rate
\* limiter: it is not denied and no timestamp is recorded for it.
C5_ExemptPathsBypassLimiter ==
    response.path \in ExemptPaths => response.decision = "bypass"

\* C6: a denied request is answered 429 with Retry-After and both
\* remaining-quota headers and its handler is not invoked; an allowed
\* non-bypass request reaches its handler and its response carries both
\* remaining-quota headers.
C6_DeniedGets429AllowedGetsHeaders ==
    /\ response.decision = "denied" =>
          /\ response.status = 429
          /\ DeniedHeaders \subseteq response.headers
          /\ ~response.handler
    /\ response.decision = "allowed" =>
          /\ response.handler
          /\ {"X-RateLimit-Minute-Remaining", "X-RateLimit-Hour-Remaining"}
                \subseteq response.headers
\* --- content generator ---

\* generate_with_deepseek has returned or raised
GenReturned == gpc \in {"returned", "done"}

\* how many attempts of the current invocation timed out
Timeouts == Cardinality({i \in 1..Len(outcomes) : outcomes[i] = "Timeout"})

\* C7: when three consecutive attempts time out, the Timeout is raised to the
\* caller and exactly 3 requests.post attempts have been made, never a fourth.
C7_ThreeTimeoutsPropagate ==
    /\ post_calls <= 3
    /\ (Len(outcomes) >= 3 /\ \A i \in 1..3 : outcomes[i] = "Timeout") =>
          /\ GenReturned
          /\ genResult = Raise("Timeout")
          /\ post_calls = 3
          /\ Len(outcomes) = 3

\* the third attempt has timed out and the call has ended
C7_Witness_ThreeTimeouts ==
    /\ GenReturned
    /\ outcomes = <<"Timeout", "Timeout", "Timeout">>
    /\ caller = "direct"

\* the call has ended at attempt k, the first that did not time out, after
\* exactly k attempts and k - 1 pauses of 2 seconds each, none after it
EndsAtFirstNonTimeout ==
    GenReturned =>
        LET k == Len(outcomes)
        IN /\ k = post_calls
           /\ k \in 1..3
           /\ \A i \in 1..(k - 1) : outcomes[i] = "Timeout"
           /\ outcomes[k] = "Timeout" => k = 3
           /\ pauses = [i \in 1..(k - 1) |-> 2]
           /\ (provided.kind = "content" /\ provided.text # <<>>) =>
                 genResult = ReturnText(Strip(provided.text))

\* C8: generate_with_deepseek always terminates, after at most 3 attempts, at
\* the first attempt that does not time out: if attempt k is the first to
\* succeed its content is returned after exactly k attempts, with exactly
\* k - 1 pauses of 2 seconds, one between consecutive attempts and none after
\* the last.
C8_TerminatesAtFirstNonTimeout ==
    /\ [](/\ post_calls <= 3
          /\ gpc = "attempt" => Len(pauses) = post_calls
          /\ gpc = "sleep" => Len(pauses) = post_calls - 1
          /\ EndsAtFirstNonTimeout)
    /\ (gpc = "attempt") ~> GenReturned

\* the third attempt succeeded after two timeouts and two pauses
C8_Witness_SuccessOnThird ==
    /\ GenReturned
    /\ Len(outcomes) = 3
    /\ outcomes[3] = "content"
    /\ genResult.kind = "text"
    /\ Len(pauses) = 2

\* generate_post has returned for a response in the labelled format
LabelledDone == gpc = "done" /\ provided.form = "labelled"

\* C9 as stated: for all X and Y without newline and all Z, the response
\* "Zagolovok: X\nMeta-opisanie: Y\nKontent: Z" is parsed to exactly
\* title = X, meta_description = Y, post_content = Z.
C9_ParsesExactlyXYZ ==
    LabelledDone =>
        /\ payload.title = provided.x
        /\ payload.meta_description = provided.y
        /\ payload.post_content = provided.z

\* s has no leading or trailing whitespace and does not start with * or #
Trimmed(s) ==
    s = <<>> \/ (/\ s[1] \notin Whitespace \cup {"*", "#"}
                 /\ s[Len(s)] \notin Whitespace)

\* C9 amended: the parsed title, meta description and body are exactly X, Y
\* and Z when each of X, Y, Z has no leading or trailing whitespace and does
\* not start with '*' or '#', X is not empty, X does not contain the
\* meta-description label and neither X nor Y contains the content label.
C9_ParsesTrimmedXYZ ==
    (/\ LabelledDone
     /\ Trimmed(provided.x) /\ Trimmed(provided.y) /\ Trimmed(provided.z)
     /\ provided.x # <<>>
     /\ ~Contains(provided.x, MetaLabel)
     /\ ~Contains(provided.x, ContentLabel)
     /\ ~Contains(provided.y, ContentLabel)) =>
        /\ payload.raised = None
        /\ payload.topic = topic
        /\ payload.title = provided.x
        /\ payload.meta_description = provided.y
        /\ payload.post_content = provided.z

\* a response with non-empty X, Y and Z was parsed back to them
C9_Witness_ParsedAllThree ==
    /\ LabelledDone
    /\ provided.x # <<>> /\ provided.y # <<>> /\ provided.z # <<>>
    /\ payload.title = provided.x
    /\ payload.meta_description = provided.y
    /\ payload.post_content = provided.z

\* C10: generate_post never raises; when the generation call returns nothing
\* the payload has the error title and the no-data body, when the call raises
\* the payload has the error title and the exception message in its body, and
\* every payload carries the requested topic.
C10_GeneratePostNeverRaises ==
    gpc = "done" =>
        /\ payload.raised = None
        /\ payload.topic = topic
        /\ topic \in Topics
        /\ genResult.kind = "none" =>
              /\ payload.title = <<"Oshibka generatsii">>
              /\ payload.post_content = <<"Ne udalos poluchit dannye ot DeepSeek API">>
        /\ genResult.kind = "raise" =>
              /\ payload.title = <<"Oshibka generatsii">>
              /\ payload.post_content =
                    <<"Proizoshla oshibka: ", Message(genResult.exc)>>

\* generate_post has answered a call that raised something other than a
\* request error
C10_Witness_ExceptionHandled ==
    /\ gpc = "done"
    /\ genResult = Raise("Exception")
    /\ payload.title = <<"Oshibka generatsii">>

\* a POST /generate exchange, as the client saw it, whose generation failed
GenerationFailed ==
    /\ apiResponse.level = "client"
    /\ apiResponse.upstream \in {"Timeout", "RequestException", "Exception"}

\* C11: POST /generate answers 500 whenever content generation fails (upstream
\* timeout after the retries, upstream HTTP error, malformed payload): the
\* failure reaches the client as a generation error with details, never as 200.
C11_GenerationFailureIs500 ==
    GenerationFailed =>
        /\ apiResponse.status = 500
        /\ apiResponse.error = "Oshibka generatsii kontenta"
        /\ apiResponse.details # None

\* C12: an authenticated POST /generate with a valid topic, the provider
\* returning a well-formed labelled response, yields 200 with the title,
\* meta description and body parsed from that response.
C12_WellFormedYields200 ==
    (apiResponse.level = "client" /\ apiResponse.upstream = "labelled") =>
        /\ apiResponse.status = 200
        /\ apiResponse.body =
              [title |-> <<"a">>, meta_description |-> <<"a">>,
               post_content |-> <<"a">>]

\* C13: verify_password(p, get_password_hash(p)) is true for every string p,
\* and verify_password(p, get_password_hash(q)) is false for every p # q.
C13_VerifyIffSamePassword ==
    pwRet.called => (pwRet.verified <=> pwRet.plain = pwRet.other)

\* the step is a call of the given AuthService operation
AuthCall(op) == calls' # calls /\ authRet'.op = op

\* C14: register for a username already in the user table returns failure and
\* leaves the whole table unchanged (password hash, email, name and disabled
\* flag of the existing record included); every record sits under its own
\* username, so usernames stay unique.
C14_RegisterExistingRejected ==
    /\ [](\A u \in DOMAIN fake_users_db : fake_users_db[u].username = u)
    /\ [][(AuthCall("register") /\ authRet'.username \in DOMAIN fake_users_db) =>
              (~authRet'.ok /\ fake_users_db' = fake_users_db)]_vars

\* a username registered during the run was registered again and refused
C14_Witness_SecondRegisterRefused ==
    /\ authRet.op = "register"
    /\ authRet.username = "bob"
    /\ ~authRet.ok
    /\ fake_users_db["bob"].email = NewEmail

\* the supplied password verifies against the hash now stored for the user
HashMatch(username, password) ==
    /\ username \in DOMAIN fake_users_db
    /\ VerifyPassword(password, fake_users_db[username].hashed_password)

\* C15: login (through authenticate_user) returns a token only when the
\* username is in the user table and the password matches the hash currently
\* stored; for an unknown username or a wrong password it returns None and
\* issues no token.
C15_TokenOnlyOnHashMatch ==
    /\ [](authRet.op = "login" =>
            /\ authRet.ok <=> HashMatch(authRet.username, authRet.password)
            /\ authRet.ok => (authRet.token.sub = authRet.username
                              /\ authRet.token \in issued)
            /\ ~authRet.ok => authRet.token = NoToken)
    /\ [][(AuthCall("login") /\ ~authRet'.ok) => issued' = issued]_vars

\* after a password change, a login with the old password was refused
C15_Witness_OldPasswordRefused ==
    /\ authRet.op = "login"
    /\ ~authRet.ok
    /\ lastChange.username = authRet.username
    /\ lastChange.old = authRet.password

\* login(username, password) would succeed now
LoginOk(username, password) ==
    AuthenticateUser(fake_users_db, username, password) # NoUser

\* C16: change_password(u, old, new) succeeds exactly when u exists and old
\* matches u's current password; after a success login(u, new) succeeds and,
\* for old # new, login(u, old) fails; after a failure the user table is
\* unchanged and login(u, current password) still succeeds.
C16_ChangePasswordContract ==
    /\ [](lastChange.username # None =>
            /\ LoginOk(lastChange.username, lastChange.new)
            /\ lastChange.old # lastChange.new =>
                  ~LoginOk(lastChange.username, lastChange.old))
    /\ [][AuthCall("change_password") =>
            /\ authRet'.ok <=> HashMatch(authRet'.username, authRet'.password)
            /\ ~authRet'.ok =>
                  /\ fake_users_db' = fake_users_db
                  /\ authRet'.username \in DOMAIN fake_users_db =>
                        AuthenticateUser(fake_users_db', authRet'.username,
                                         passwords'[authRet'.username]) # NoUser]_vars

\* the presented token is correctly signed, not past its expiry, and names a
\* user of the table
GoodToken(t, at) ==
    /\ t.sig = SecretKey
    /\ ~(t.exp < at)
    /\ t.sub # None
    /\ t.sub \in DOMAIN fake_users_db

\* C17: get_current_user rejects with 401 every token whose signature does
\* not verify, whose expiry has passed, that carries no subject, or whose
\* subject is not in the user table; it returns a user only for a correctly
\* signed, unexpired token naming an existing user.
C17_VerificationRejectsBadTokens ==
    authRet.op = "get_current_user" =>
        /\ authRet.ok <=> GoodToken(authRet.token, authRet.at)
        /\ authRet.ok => (authRet.status = 200 /\ authRet.username = authRet.token.sub)
        /\ ~authRet.ok => authRet.status = 401

\* a correctly signed token of an existing user was rejected after its expiry
C17_Witness_ExpiredRejected ==
    /\ authRet.op = "get_current_user"
    /\ authRet.token.sig = SecretKey
    /\ authRet.token.sub \in DOMAIN fake_users_db
    /\ authRet.token.exp < authRet.at
    /\ authRet.status = 401

\* C18: a token issued by login expires 30 minutes after its issue and is
\* accepted by token verification at every time before that, whatever
\* change_password, register, disable or enable calls were made in between.
C18_NoRevocation ==
    \A t \in issued :
        t.via = "login" =>
            /\ t.exp = t.iat + TokenSeconds
            /\ now < t.exp =>
                  GetCurrentUser(t, fake_users_db, now) = [status |-> 200, user |-> t.sub]

\* a token was accepted after time had passed and after its user's password
\* had been changed and the account disabled
C18_Witness_AcceptedAfterChanges ==
    /\ authRet.op = "get_current_user"
    /\ authRet.ok
    /\ authRet.token.via = "login"
    /\ authRet.token.iat < authRet.at
    /\ passwords[authRet.token.sub] = LongPasswordA
    /\ fake_users_db[authRet.token.sub].disabled

\* the token of the call is correctly signed and unexpired and names a user
\* of the table other than admin
OtherUserCall ==
    /\ GoodToken(authRet'.token, now)
    /\ authRet'.token.sub # "admin"

RanBefore(name) == name \in DOMAIN runs /\ runs[name] # <<>>

\* C20: check_health runs a registered probe only if at least its configured
\* interval has elapsed since that probe's last run, and every probe runs on
\* the first call; no probe is invoked twice within its own interval, and the
\* decision for a probe depends on its own last run and interval only.
C20_ProbeRunsOncePerInterval ==
    /\ [](\A name \in DOMAIN runs :
            \A i \in 1..(Len(runs[name]) - 1) :
                runs[name][i + 1].at - runs[name][i].at >= runs[name][i + 1].interval)
    /\ [][(calls' # calls /\ healthRet'.n = calls') =>
            /\ ~healthRet.called => DOMAIN healthRet'.results = DOMAIN checks
            /\ \A name \in DOMAIN checks :
                  LET elapsed == ~RanBefore(name)
                                 \/ healthRet'.at - runs[name][Len(runs[name])].at
                                        >= checks[name].interval
                      ran == /\ name \in DOMAIN runs'
                             /\ runs'[name] # (IF name \in DOMAIN runs THEN runs[name] ELSE <<>>)
                  IN /\ ran <=> elapsed
                     /\ ran <=> name \in DOMAIN healthRet'.results]_vars

\* in one call the 30-second probe ran again while the 60-second and the
\* 300-second probes, inside their intervals, did not
C20_Witness_IndependentIntervals ==
    /\ healthRet.called
    /\ DOMAIN healthRet.results = {"database"}
    /\ Len(runs["database"]) = 2
    /\ Len(runs["external_apis"]) = 1
    /\ Len(runs["disk_space"]) = 1


\* check_health was the last call made on the health checker
JustChecked == healthRet.called /\ healthRet.n = calls

\* the status of the most recent run of a probe
LatestStatus(name) == runs[name][Len(runs[name])].status

\* C21: every check_health call returns a result for each registered probe:
\* a fresh one for a probe it ran, the result of the last run for a probe
\* whose interval has not elapsed.
C21_ResultForEveryProbe ==
    JustChecked =>
        \A name \in DOMAIN checks :
            /\ name \in DOMAIN healthRet.results
            /\ RanBefore(name) => healthRet.results[name].status = LatestStatus(name)

\* C22: GET /health reports "unhealthy" whenever the most recent result of
\* some registered probe is not healthy, on every call, and "healthy" only
\* when the latest result of every probe is healthy.
C22_AggregateFollowsLatestResults ==
    JustChecked =>
        (HealthCheck(healthRet.results).status = "healthy"
            <=> \A name \in DOMAIN checks :
                    RanBefore(name) => LatestStatus(name) = "healthy")


\* the last n elements of a sequence
LastN(s, n) == SubSeq(s, Len(s) - n + 1, Len(s))

\* C23: the request history is a bounded ring buffer: its length is
\* min(number of record_request calls, max_history), it holds the most recent
\* records in arrival order, and total_requests counts every call.
C23_HistoryIsRingBuffer ==
    /\ Len(request_history) = Min(Len(recorded), max_history)
    /\ request_history = LastN(recorded, Len(request_history))
    /\ metrics.total_requests = Len(recorded)

\* more records than the buffer holds: the oldest ones are gone, the count
\* is past the capacity
C23_Witness_OldestDropped ==
    /\ max_history = MaxHistory
    /\ max_history > 0
    /\ Len(recorded) = max_history + 2
    /\ request_history[1] = recorded[3]
    /\ recorded[1] # recorded[3]
    /\ metrics.total_requests > max_history


\* the step in which a caller runs send_async and builds its response
HandleStep == npc = "idle" /\ npc' = "responding"

\* C24: send_async makes no outbound call itself: it adds exactly one
\* send_notification task to the list it is given when notifications are
\* enabled and none when disabled; an outbound call is made only after the
\* response has been sent, and however it ends the response is not changed.
C24_DispatchIsDeferred ==
    /\ [][HandleStep =>
            /\ posts' = posts
            /\ background_tasks' =
                   IF tgConfig.enabled THEN <<CallerMessage(notifyRet'.via)>> ELSE <<>>]_vars
    /\ [][posts' # posts =>
            /\ notifyRet.sent
            /\ notifyRet' = notifyRet
            /\ Len(posts') = Len(posts) + 1]_vars
    /\ [](\A i \in 1..Len(posts) : posts[i].responded)

\* a 200 response was sent, and afterwards the outbound call timed out
C24_Witness_SlowCallAfterResponse ==
    /\ notifyRet.via = "test_telegram"
    /\ notifyRet.status = 200
    /\ notifyRet.sent
    /\ posts # <<>>
    /\ posts[Len(posts)].request = notifyRet.n
    /\ posts[Len(posts)].outcome = "timeout"

\* the request the last notification belongs to is over
RequestOver == notifyRet.sent /\ npc = "idle"

\* C25: an unhandled exception in the request path is caught by
\* catch_exceptions_and_log, which has an error notification sent to the
\* chat-bot endpoint when notifications are enabled and returns the 500
\* envelope.
C25_UnhandledExceptionIsReported ==
    (notifyRet.via = "unhandled" /\ RequestOver) =>
        /\ notifyRet.status = 500
        /\ (notifyRet.enabled /\ notifyRet.configured) =>
               \E i \in 1..Len(posts) :
                   /\ posts[i].request = notifyRet.n
                   /\ posts[i].message = ApiErrorMessage


\* C26: every response the service returns carries the X-Request-ID header:
\* on a bypass path, for a request that was allowed, and for one that was
\* denied by the rate limiter.
C26_EveryResponseHasRequestId ==
    response.path # None => "X-Request-ID" \in response.headers

\* the answer to a request the rate limiter denied carries the header
C26_Witness_DeniedCarriesRequestId ==
    /\ response.decision = "denied"
    /\ "X-Request-ID" \in response.headers
    /\ rlCall.allowed = FALSE


\* a decorated function was called directly in this step
DirectCallStep == calls' # calls /\ memoRet'.n = calls' /\ memoRet'.via = "call"

\* the function was invoked with these arguments within the last TTL seconds
InvokedWithinTTL(name, a) ==
    \E i \in 1..Len(invocations) :
        /\ invocations[i].fn = name
        /\ invocations[i].args = a
        /\ now - invocations[i].at <= TopicsTTL

\* C27: within the TTL a function under @cached is invoked at most once per
\* combination of arguments: a call invokes it exactly when it was not
\* invoked with equal arguments within the TTL, and a repeated call returns
\* the result stored by the first.
C27_InvokedOncePerArguments ==
    [][DirectCallStep =>
          /\ memoRet'.invoked <=> ~InvokedWithinTTL(memoRet'.fn, memoRet'.args)
          /\ memoRet'.result.kind = "value" =>
                 /\ memoRet'.result.of = memoRet'.fn
                 /\ memoRet'.result.args = memoRet'.args]_vars

\* GET /topics was the last call
TopicsAnswered == memoRet.via = "endpoint" /\ memoRet.n = calls

\* C28: every GET /topics returns the static list: the first call computes
\* and caches it, later calls within the TTL are served from the cache with
\* the same payload.
C28_TopicsAlwaysServed ==
    TopicsAnswered => memoRet.status = 200


\* a @cache_invalidate wrapper ran in this step and its function returned
InvalidateStep == calls' # calls /\ invRet'.n = calls' /\ invRet'.ending = "returns"

\* C29: after the wrapped function returns, with a pattern exactly the keys
\* that contain it are removed and every other entry keeps its value and
\* expiry; with no pattern the cache is cleared; the function's result is
\* returned unchanged.
C29_InvalidateRemovesMatchingKeys ==
    [][InvalidateStep =>
          /\ invRet'.result = InvalidatedResult
          /\ DOMAIN cache' \subseteq DOMAIN cache
          /\ \A key \in DOMAIN cache :
                 /\ key \in DOMAIN cache' <=>
                        (invRet'.pattern.given /\ ~InString(invRet'.pattern.text, key))
                 /\ key \in DOMAIN cache' => cache'[key] = cache[key]]_vars

\* a pattern removed one entry and left another, which does not contain it
C29_Witness_OneRemovedOneKept ==
    /\ invRet.n = calls
    /\ invRet.ending = "returns"
    /\ invRet.pattern = [given |-> TRUE, text |-> <<"b">>]
    /\ invRet.removed = 1
    /\ DOMAIN cache = {<<"a", "a">>}


\* no thread is inside is_allowed
Quiescent == \A t \in Threads : threads[t].pc = "idle"

\* C30: concurrent is_allowed calls for a client leave what some sequential
\* order of them leaves: no more timestamps than the ceilings of the windows
\* (all calls here fall in one window), and, once every call has returned,
\* the timestamp of every allowed call in both lists.
C30_IsAllowedAtomic ==
    /\ \A c \in Clients :
          /\ Len(minute_requests[c]) <= RequestsPerMinute
          /\ Len(hour_requests[c]) <= RequestsPerHour
          /\ Len(allowedLog[c]) <= RequestsPerMinute
    /\ Quiescent =>
          \A c \in Clients :
              /\ minute_requests[c] = allowedLog[c]
              /\ hour_requests[c] = allowedLog[c]

\* --- set with an explicit ttl ---

\* C32: set(key, value, ttl) with an explicit ttl gives the entry the expiry
\* now + ttl for every ttl value passed, whatever default_ttl is; default_ttl
\* is used only when the ttl argument is omitted.
C32_ExplicitTTLSetsExpiry ==
    cacheRet.op = "set" =>
        LET s == lastSet[cacheRet.key]
        IN /\ cacheRet.key \in DOMAIN cache
           /\ cache[cacheRet.key].expires_at =
                 cacheRet.at + (IF s.given THEN s.ttl ELSE DefaultTTL)

\* --- which attempts are retried ---

\* the outcome of the latest attempt of the current invocation
LastOutcome == outcomes[Len(outcomes)]

\* C33: only timeouts are retried. Every attempt before the latest one timed
\* out and was followed by one pause; an attempt that fails with a request
\* error that is no timeout ends the call by raising that error, and an
\* attempt that returns a payload without usable content ends it with None,
\* in both cases with no pause after it and no further attempt; the number of
\* attempts made is 1 plus the number of timeouts before the final attempt.
C33_OnlyTimeoutsRetried ==
    /\ \A i \in 1..(Len(outcomes) - 1) : outcomes[i] = "Timeout"
    /\ post_calls = Len(outcomes)
    /\ (outcomes # <<>> /\ LastOutcome # "Timeout") =>
          /\ gpc \in {"returned", "done"}
          /\ Len(pauses) = post_calls - 1
          /\ post_calls =
                1 + Cardinality({i \in 1..(Len(outcomes) - 1) : outcomes[i] = "Timeout"})
          /\ LastOutcome \in {"RequestException", "Exception"} =>
                genResult = Raise(LastOutcome)
          /\ (LastOutcome = "content" /\ provided.text = <<>>) =>
                genResult = ReturnNone
    /\ (GenReturned /\ outcomes # <<>>) =>
          post_calls =
             1 + Cardinality({i \in 1..(Len(outcomes) - 1) : outcomes[i] = "Timeout"})

\* a connection error on the second attempt, after one timeout and one pause,
\* has ended the call
C33_Witness_ErrorAfterOneTimeout ==
    /\ gpc = "returned"
    /\ outcomes = <<"Timeout", "RequestException">>
    /\ genResult = Raise("RequestException")
    /\ pauses = <<RetryPause>>

\* --- the counters of the metrics collector ---

\* sum(d.values())
RECURSIVE DictSum(_)
DictSum(d) ==
    IF DOMAIN d = {} THEN 0
    ELSE LET k == CHOOSE x \in DOMAIN d : TRUE
         IN d[k] + DictSum(DictDel(d, k))

\* how many of the recorded requests have a status in 200..399
SuccessfulRecorded ==
    Cardinality({i \in 1..Len(recorded) :
                    200 <= recorded[i].status_code /\ recorded[i].status_code < 400})

\* C34: after any sequence of record_request calls, total_requests =
\* successful_requests + failed_requests, the per-endpoint usage counts sum to
\* total_requests, a request counts as successful exactly when its status is
\* in 200..399, and the per-status error counts sum to failed_requests.
C34_CountersConsistent ==
    /\ metrics.total_requests = Len(recorded)
    /\ metrics.total_requests = metrics.successful_requests + metrics.failed_requests
    /\ DictSum(metrics.endpoint_usage) = metrics.total_requests
    /\ metrics.successful_requests = SuccessfulRecorded
    /\ DictSum(metrics.error_counts) = metrics.failed_requests

\* --- retrying after a denial ---

\* the number of seconds the Retry-After header of the denial advertises
RetryAfterSeconds == 60

\* the client of the last call, which was denied, calls again as its next
\* call, no sooner than the advertised period after the denial
RetryAfterDenial ==
    /\ calls' # calls
    /\ rlCall.client # None
    /\ ~rlCall.allowed
    /\ rlCall'.client = rlCall.client
    /\ rlCall'.at >= rlCall.at + RetryAfterSeconds

\* C35: a client that is denied, sends nothing for the advertised Retry-After
\* period of 60 seconds and then retries is allowed on that retry, whichever
\* window caused the denial.
C35_RetryAfterIsSufficient ==
    [][RetryAfterDenial => rlCall'.allowed]_vars

\* --- the admin account and the disabled flag ---

\* the account is disabled
Disabled(username) ==
    username \in DOMAIN fake_users_db /\ fake_users_db[username].disabled

\* C36: the admin endpoints never become permanently unusable: in every state
\* reachable through the API the admin account is enabled or can be enabled
\* again by some sequence of API calls, so that a disabled admin account is
\* eventually enabled again by a caller who keeps trying.
C36_AdminCanBeReEnabled == Disabled("admin") ~> ~Disabled("admin")

\* once the admin account is disabled no API call enables it again: every
\* call that could is guarded by require_admin, which rejects a disabled admin
LockoutIsPermanent == [][Disabled("admin") => Disabled("admin")']_vars

\* the endpoints guarded by get_current_active_user or by require_admin
GuardedOps == {"get_current_user_info"} \cup AdminOps

\* C37: while a user's disabled flag is set, every endpoint guarded by
\* get_current_active_user or require_admin rejects that user's requests,
\* with 400 when the token presented is valid and unexpired, a token obtained
\* by logging in while disabled included, and changes nothing; the flag is
\* cleared by nothing but an enable operation that reached its handler.
C37_DisabledUserIsRejected ==
    [][/\ (calls' # calls /\ authRet'.op \in GuardedOps
                /\ Disabled(authRet'.token.sub)) =>
             /\ ~authRet'.ok
             /\ authRet'.status # 200
             /\ GoodToken(authRet'.token, now) => authRet'.status = 400
             /\ fake_users_db' = fake_users_db
       /\ \A u \in DOMAIN fake_users_db :
             (Disabled(u) /\ ~fake_users_db'[u].disabled) =>
                 /\ authRet'.op = "enable_user"
                 /\ authRet'.target = u
                 /\ authRet'.ok]_vars

\* a user who logged in while disabled called GET /auth/me with that token,
\* still unexpired, and got 400
C37_Witness_TokenFromLoginWhileDisabled ==
    /\ authRet.op = "get_current_user_info"
    /\ authRet.token.via = "login"
    /\ authRet.token.inactive
    /\ authRet.token.sig = SecretKey
    /\ ~(authRet.token.exp < authRet.at)
    /\ Disabled(authRet.token.sub)
    /\ authRet.status = 400

\* --- requests and the metrics collector ---

\* C38: every request served by the application is recorded exactly once by
\* the metrics collector: after n requests have been served total_requests is
\* n, and GET /metrics is answered by its handler, which reports that count.
C38_EveryRequestRecorded ==
    /\ metrics.total_requests = calls
    /\ Len(recorded) = calls
    /\ response.path = "/metrics" => response.handler /\ response.status = 200

\* --- the cache used by several threads ---

\* key has been written and its latest entry has not expired
Unexpired(key) ==
    /\ lastSet[key] # NoSet
    /\ now <= lastSet[key].at
                 + EffectiveTTL([given |-> lastSet[key].given, val |-> lastSet[key].ttl])

\* the keys that have been written
Written == {k \in Keys : lastSet[k] # NoSet}

\* no key has been used by more than one thread
DisjointKeys == \A k \in Keys : Cardinality(touched[k]) <= 1

\* C31: when threads set and then get keys that no other thread touches,
\* every get returns the value that thread set, and no entry is lost: size()
\* equals the number of distinct keys written (the entries being within
\* their time-to-live, as they are in a run of the test).
C31_DisjointKeysAreSafe ==
    /\ \A t \in Threads :
          LET r == workers[t].ret
          IN (workers[t].pc = "idle" /\ r.op = "get" /\ touched[r.key] = {t}
                  /\ Unexpired(r.key)) =>
                /\ r.raised = None
                /\ r.value = lastSet[r.key].value
                /\ r.value = WorkerValue(t)
    /\ (DisjointKeys /\ \A k \in Written : Unexpired(k)) =>
          /\ DOMAIN cache = Written
          /\ CacheSize = Cardinality(Written)
          /\ \A t \in Threads : workers[t].ret.raised = None

\* a thread got its own value back from a get during which another thread
\* stored under another key, and both entries are in the cache
C31_Witness_InterleavedOwnKeys ==
    /\ workers["t1"].pc = "idle"
    /\ workers["t1"].ret = WorkerRet("get", "k1", "v1", None, TRUE)
    /\ touched = [k \in Keys |-> IF k = "k1" THEN {"t1"} ELSE {"t2"}]
    /\ CacheSize = 2

\* C39: under concurrent get and set calls on the same key, get never raises
\* and never removes an unexpired entry: the entry a get deletes is expired
\* at the moment it is deleted, never a fresh value another thread stored
\* for the key in the meantime.
C39_GetRemovesOnlyExpired ==
    /\ [](\A t \in Threads : workers[t].ret.raised = None)
    /\ [][\A k \in DOMAIN cache :
             k \notin DOMAIN cache' => Expired(cache[k], now)]_vars

====
